---- MODULE Spec2Model ----
(***************************************************************************)
(* Order tracking pipeline of the Additive Artisan store site:             *)
(*   api_helpers.js   fetchWithTimeout, fetchWithRetry                     *)
(*   order_tracker.js fetchOrderStatus, showLoading, displayOrderStatus,   *)
(*                    displayError                                         *)
(*   script.js        handleOrderSearch (the submit handler), hash routing *)
(*                    and the deep-link parameters, the theme              *)
(*   products.js      initProducts, the product grid and its filters       *)
(*   utils.js         escapeHTML, isValidURL, formatDate, debounce         *)
(*   sw.js            the service worker: install and fetch handlers       *)
(*                                                                         *)
(* Text is a sequence of chunks (strings); the characters that matter to   *)
(* HTML ("<", ">", "&", quotes) are chunks of their own.  Form input is a  *)
(* sequence of one-character strings.                                      *)
(***************************************************************************)
EXTENDS Integers, Sequences, FiniteSets, TLC

VARIABLES page, nav, shop, deb, theme, sw, calls, timers, view, formError, unhandled, direct, probe

vars == <<page, nav, shop, deb, theme, sw, calls, timers, view, formError, unhandled, direct, probe>>

(***************************************************************************)
(* Bounds of the model                                                     *)
(***************************************************************************)
\* lookups that may be in flight at once (slots of the submit handler)
MaxInFlight == 2
\* largest maxRetries argument a direct caller passes to fetchWithRetry
MaxRetriesArg == 4

(***************************************************************************)
(* Program constants                                                       *)
(***************************************************************************)
\* fetchWithRetry(url, options = {}, maxRetries = 3)
DefaultMaxRetries == 3
\* fetchWithTimeout(url, 10000)
TimeoutMs == 10000
\* Math.pow(2, i) * 1000
BackoffUnitMs == 1000

Slots == 1..MaxInFlight

(***************************************************************************)
(* Characters and form input                                               *)
(***************************************************************************)
Upper == {"A","B","C","D","E","F","G","H","I","J","K","L","M",
          "N","O","P","Q","R","S","T","U","V","W","X","Y","Z"}
Lower == {"a","b","c","d","e","f","g","h","i","j","k","l","m",
          "n","o","p","q","r","s","t","u","v","w","x","y","z"}
Digit == {"0","1","2","3","4","5","6","7","8","9"}
Space == {" "}

\* String.prototype.trim: drop the white space at both ends
RECURSIVE TrimLeft(_)
TrimLeft(s) ==
  IF s # <<>> /\ Head(s) \in Space THEN TrimLeft(Tail(s)) ELSE s

RECURSIVE TrimRight(_)
TrimRight(s) ==
  IF s # <<>> /\ s[Len(s)] \in Space
    THEN TrimRight(SubSeq(s, 1, Len(s) - 1))
    ELSE s

Trim(s) == TrimRight(TrimLeft(s))

AllIn(s, from, to, class) == \A k \in from..to : s[k] \in class

\* the pattern without its anchors ^ and $: some part of s has the shape
orderIdPattern_Unanchored(s) ==
  \E from \in 1..Len(s) :
    /\ from + 11 <= Len(s)
    /\ AllIn(s, from, from + 1, Upper)
    /\ s[from + 2] = "-"
    /\ AllIn(s, from + 3, from + 6, Digit)
    /\ s[from + 7] = "-"
    /\ AllIn(s, from + 8, from + 11, Digit)

\* /^[A-Z]{2}-\d{4}-\d{4}$/.test(orderId)
orderIdPattern(s) ==
  /\ Len(s) = 12
  /\ AllIn(s, 1, 2, Upper)
  /\ s[3] = "-"
  /\ AllIn(s, 4, 7, Digit)
  /\ s[8] = "-"
  /\ AllIn(s, 9, 12, Digit)

\* /^[a-zA-Z0-9._%+-]+@[a-zA-Z0-9.-]+\.[a-zA-Z]{2,}$/.test(email)
emailRegex(s) ==
  \E at \in 2..Len(s) : \E dot \in (at + 2)..Len(s) :
    /\ AllIn(s, 1, at - 1, Upper \cup Lower \cup Digit \cup {".", "_", "%", "+", "-"})
    /\ s[at] = "@"
    /\ AllIn(s, at + 1, dot - 1, Upper \cup Lower \cup Digit \cup {".", "-"})
    /\ s[dot] = "."
    /\ Len(s) - dot >= 2
    /\ AllIn(s, dot + 1, Len(s), Upper \cup Lower)

\* what the user (or a deep link) may leave in the order-id field
OrderIdInputs ==
  { <<>>,
    <<"A","A","-","2","0","2","4","-","0","0","4","7">>,
    <<" ","A","A","-","2","0","2","4","-","0","0","4","7"," ">>,
    <<"a","a","-","2","0","2","4","-","0","0","4","7">>,
    <<"A","A","-","2","4","-","0","0","4","7">>,
    <<"A","A","-","2","0","2","4","-","0","4","7">> }

\* what may be in the email field
EmailInputs ==
  { <<>>,
    <<"a","@","b",".","c","o">>,
    <<" ","a","@","b",".","c","o">>,
    <<"a","@","b">>,
    <<"a","@","b",".","c">> }

(***************************************************************************)
(* Text, HTML escaping                                                     *)
(***************************************************************************)
\* the entity an HTML serializer writes for a character of a text node
\* (div.textContent = str; div.innerHTML)
TextEntity(ch) ==
  CASE ch = "&" -> "&amp;"
    [] ch = "<" -> "&lt;"
    [] ch = ">" -> "&gt;"
    [] OTHER    -> ch

\* the replacement table of displayError's fallback
FallbackEntity(ch) ==
  CASE ch = "&"  -> "&amp;"
    [] ch = "<"  -> "&lt;"
    [] ch = ">"  -> "&gt;"
    [] ch = "\"" -> "&quot;"
    [] ch = "'"  -> "&#39;"
    [] OTHER     -> ch

\* an escapeHTML that returns its argument
escapeHTML_Raw(str) == str

\* utils.escapeHTML(str)
escapeHTML(str) ==
  IF str = <<>> THEN <<>> ELSE [k \in 1..Len(str) |-> TextEntity(str[k])]

\* message.replace(/[&<>"']/g, ...)
escapeFallback(str) == [k \in 1..Len(str) |-> FallbackEntity(str[k])]

\* the character an HTML parser reads for a chunk of markup source
DecodeEntity(ch) ==
  CASE ch = "&amp;"  -> "&"
    [] ch = "&lt;"   -> "<"
    [] ch = "&gt;"   -> ">"
    [] ch = "&quot;" -> "\""
    [] ch = "&#39;"  -> "'"
    [] OTHER         -> ch

\* what assigning innerHTML = "<span class=error-message>X " + html + "</span>"
\* leaves in the element: the text the user reads, and whether a chunk of
\* html was taken as markup
ParseHTML(html) ==
  [ text   |-> [k \in 1..Len(html) |-> DecodeEntity(html[k])],
    markup |-> \E k \in 1..Len(html) : html[k] \in {"<", ">", "&"} ]

(***************************************************************************)
(* Orders, response envelopes, HTTP responses                              *)
(***************************************************************************)
\* a field of an order that the envelope does not carry is ""
NoOrder == [present |-> FALSE, status |-> "", product |-> "",
            createdDate |-> "", trackingNumber |-> ""]

OrderPrinting == [present |-> TRUE, status |-> "Printing", product |-> "Test Product",
                  createdDate |-> "2024-12-09", trackingNumber |-> ""]

OrderOnHold == [present |-> TRUE, status |-> "On Hold", product |-> "",
                createdDate |-> "", trackingNumber |-> "1Z999"]

Orders == {OrderPrinting, OrderOnHold}

MsgNotFound == <<"Order not found or email doesn", "'", "t match">>
MsgInternal == <<"Internal server error">>

\* a body that is no JSON document (an HTML page)
BodyHtml == [json |-> FALSE, success |-> FALSE, error |-> <<>>, order |-> NoOrder]

Envelope(success, error, order) ==
  [json |-> TRUE, success |-> success, error |-> error, order |-> order]

Response(status, statusStr, statusText, body) ==
  [status |-> status, statusStr |-> statusStr, statusText |-> statusText, body |-> body]

\* the value of a variable that holds no response (undefined)
NoResp == Response(0, "", "", BodyHtml)

RespFound(order) == Response(200, "200", "OK", Envelope(TRUE, <<>>, order))
\* the worker's answer when no record matches (cloudflare_workers_setup.md)
Resp404 == Response(404, "404", "Not Found", Envelope(FALSE, MsgNotFound, NoOrder))
\* the same answer delivered with a 2xx status
Resp200NotFound == Response(200, "200", "OK", Envelope(FALSE, MsgNotFound, NoOrder))
\* success=false without an error string
Resp200Failed == Response(200, "200", "OK", Envelope(FALSE, <<>>, NoOrder))
\* success=true without an order object
Resp200NoOrder == Response(200, "200", "OK", Envelope(TRUE, <<>>, NoOrder))
\* the worker's answer when its handler throws
Resp500 == Response(500, "500", "Internal Server Error",
                    Envelope(FALSE, MsgInternal, NoOrder))
\* a static page served for the URL, and the static host's 404 page
Resp200Html == Response(200, "200", "OK", BodyHtml)
Resp404Html == Response(404, "404", "Not Found", BodyHtml)

\* response.ok
Ok(resp) == resp.status >= 200 /\ resp.status <= 299

\* what the order worker may answer
WorkerResponses ==
  {RespFound(o) : o \in Orders}
  \cup {Resp404, Resp200NotFound, Resp200Failed, Resp200NoOrder, Resp500}

\* what the site's own host answers for "?orderId=..." (no endpoint configured)
StaticHostResponses == {Resp200Html, Resp404Html}

\* how a fetch promise settles when its signal is not aborted
NetError == [kind |-> "neterr", resp |-> NoResp]
Answer(resp) == [kind |-> "response", resp |-> resp]
\* how it settles once controller.abort() ran
Aborted == [kind |-> "abort", resp |-> NoResp]

Outcomes(responses) == {NetError} \cup {Answer(r) : r \in responses}

(***************************************************************************)
(* Errors                                                                  *)
(***************************************************************************)
NoError == [name |-> "", message |-> <<>>]
Err(name, message) == [name |-> name, message |-> message]

MsgTimeout == <<"Request timeout - please try again">>
MsgFailedToFetch == <<"Failed to fetch">>
MsgGeneric == <<"Failed to fetch order status">>
MsgFallback == <<"Unable to find order. Please check your order number and email address.">>
MsgSyntax == <<"Unexpected token ", "<", " in JSON at position 0">>
MsgNoOrder == <<"Cannot read properties of undefined (reading ", "'", "status", "'", ")">>
MsgUndefinedJson == <<"Cannot read properties of undefined (reading ", "'", "json", "'", ")">>

\* new Error(`HTTP ${response.status}: ${response.statusText}`)
HttpError(resp) == Err("Error", <<"HTTP ", resp.statusStr, ": ", resp.statusText>>)

(***************************************************************************)
(* api_helpers.js                                                          *)
(***************************************************************************)
Returned(resp) == [threw |-> FALSE, resp |-> resp, error |-> NoError]
Threw(error) == [threw |-> TRUE, resp |-> NoResp, error |-> error]

\* fetchWithTimeout that rethrows the AbortError as it caught it
fetchWithTimeout_RethrowsAbort(outcome) ==
  CASE outcome.kind = "response" -> Returned(outcome.resp)
    [] outcome.kind = "abort"    -> Threw(Err("AbortError", <<"The user aborted a request.">>))
    [] OTHER                     -> Threw(Err("TypeError", MsgFailedToFetch))

\* fetchWithTimeout from the point where `await fetch(...)` settles:
\* its return value or the error it throws
fetchWithTimeout(outcome) ==
  CASE outcome.kind = "response" -> Returned(outcome.resp)
    [] outcome.kind = "abort"    -> Threw(Err("Error", MsgTimeout))
    [] OTHER                     -> Threw(Err("TypeError", MsgFailedToFetch))

\* clearTimeout(id) only after a response, not in the catch
ClearsTimer_OnlyOnResponse(outcome) == outcome.kind = "response"

\* does fetchWithTimeout clear its timer when fetch settles (both paths do)
ClearsTimer(outcome) == TRUE

RECURSIVE Pow2(_)
Pow2(n) == IF n <= 0 THEN 1 ELSE 2 * Pow2(n - 1)

\* a backoff that grows by one second per attempt
BackoffMs_Linear(i) == (i + 1) * BackoffUnitMs

\* Math.pow(2, i) * 1000
BackoffMs(i) == Pow2(i) * BackoffUnitMs

\* a call of fetchWithRetry: pc is where it stands
\*   "idle" not called, "attempt" awaiting fetchWithTimeout, "wait" awaiting
\*   the backoff timer, "resolved" / "rejected" settled
NoFetch ==
  [pc |-> "idle", i |-> 0, maxRetries |-> 0, attempts |-> 0,
   resp |-> NoResp, error |-> NoError]

\* loop head: for (...; i < maxRetries; ...)
LoopHead(f, i) ==
  IF i < f.maxRetries
    THEN [f EXCEPT !.pc = "attempt", !.i = i, !.attempts = f.attempts + 1]
    ELSE [f EXCEPT !.pc = "resolved", !.i = i, !.resp = NoResp]

\* fetchWithRetry(url, options, maxRetries) up to its first await
fetchWithRetryCall(maxRetries) ==
  LoopHead([NoFetch EXCEPT !.maxRetries = maxRetries], 0)

\* a loop body whose catch swallows the error of the last attempt: the loop
\* ends and the call resolves with undefined
fetchWithRetryBody_Swallows(f, done) ==
  IF ~done.threw /\ Ok(done.resp)
    THEN [f EXCEPT !.pc = "resolved", !.resp = done.resp]
    ELSE IF f.i = f.maxRetries - 1
      THEN [f EXCEPT !.pc = "resolved", !.resp = NoResp]
      ELSE [f EXCEPT !.pc = "wait"]

\* a loop body that returns a 2xx response only from the last attempt
fetchWithRetryBody_NoEarlyReturn(f, done) ==
  IF f.i = f.maxRetries - 1
    THEN IF ~done.threw /\ Ok(done.resp)
           THEN [f EXCEPT !.pc = "resolved", !.resp = done.resp]
           ELSE [f EXCEPT !.pc = "rejected",
                          !.error = IF done.threw THEN done.error ELSE HttpError(done.resp)]
    ELSE [f EXCEPT !.pc = "wait"]

\* a loop body that takes a 404 answer as final: it returns the response from
\* the attempt that received it
fetchWithRetryBody_NotFoundFinal(f, done) ==
  IF ~done.threw /\ (Ok(done.resp) \/ done.resp.status = 404)
    THEN [f EXCEPT !.pc = "resolved", !.resp = done.resp]
    ELSE IF f.i = f.maxRetries - 1
      THEN [f EXCEPT !.pc = "rejected",
                     !.error = IF done.threw THEN done.error ELSE HttpError(done.resp)]
      ELSE [f EXCEPT !.pc = "wait"]
\* a loop body that hands the response of the last attempt to the caller
\* whatever its status
fetchWithRetryBody_ReturnsLast(f, done) ==
  IF ~done.threw /\ (Ok(done.resp) \/ f.i = f.maxRetries - 1)
    THEN [f EXCEPT !.pc = "resolved", !.resp = done.resp]
    ELSE IF f.i = f.maxRetries - 1
      THEN [f EXCEPT !.pc = "rejected", !.error = done.error]
      ELSE [f EXCEPT !.pc = "wait"]

\* the body of the loop after `await fetchWithTimeout(...)` completed with done
fetchWithRetryBody(f, done) ==
  IF ~done.threw /\ Ok(done.resp)
    THEN [f EXCEPT !.pc = "resolved", !.resp = done.resp]
    ELSE IF f.i = f.maxRetries - 1
      THEN [f EXCEPT !.pc = "rejected",
                     !.error = IF done.threw THEN done.error ELSE HttpError(done.resp)]
      ELSE [f EXCEPT !.pc = "wait"]

\* the backoff promise resolved: i++ and the loop head
fetchWithRetryResume(f) == LoopHead(f, f.i + 1)

\* the timer fetchWithTimeout arms for an attempt; owner 0 is the direct caller
Timer(owner, attempt) == [owner |-> owner, attempt |-> attempt, ms |-> TimeoutMs]

\* timers after fetch record f of owner moved to g by a step that started from
\* an attempt whose fetch settled with outcome (or from no attempt: NetError)
TimersAfter(owner, f, g, outcome) ==
  LET cleared == IF f.pc = "attempt" /\ ClearsTimer(outcome)
                   THEN timers \ {Timer(owner, f.attempts)}
                   ELSE timers
  IN IF g.pc = "attempt" /\ g.attempts # f.attempts
       THEN cleared \cup {Timer(owner, g.attempts)}
       ELSE cleared

(***************************************************************************)
(* order_tracker.js: the status registry                                   *)
(***************************************************************************)
StatusEntry(emoji, message, step) == [emoji |-> emoji, message |-> message, step |-> step]

STATUS_CONFIG ==
  [ label \in {"Order Received", "In Queue", "Printing", "Post-Processing",
               "Quality Control", "Packaging", "Shipped", "Delivered"} |->
      CASE label = "Order Received"  -> StatusEntry("wave", "We got your order!", "received")
        [] label = "In Queue"        -> StatusEntry("clipboard", "Spot reserved in print queue", "queue")
        [] label = "Printing"        -> StatusEntry("printer", "Your print is being created", "printing")
        [] label = "Post-Processing" -> StatusEntry("wrench", "Cleaning and finishing", "processing")
        [] label = "Quality Control" -> StatusEntry("magnifier", "Final inspection", "quality")
        [] label = "Packaging"       -> StatusEntry("package", "Carefully boxing your order", "packaging")
        [] label = "Shipped"         -> StatusEntry("airplane", "On its way to you!", "shipped")
        [] OTHER                     -> StatusEntry("party", "Enjoy your print!", "delivered") ]

\* a default descriptor whose step is not a step of the timeline
DEFAULT_STATUS_NoStep == StatusEntry("cat", "Processing your order", "")

DEFAULT_STATUS == StatusEntry("cat", "Processing your order", "received")

\* STATUS_CONFIG is an object literal: besides its 8 own keys, a lookup finds
\* the properties it inherits from Object.prototype, which are truthy
ObjectPrototypeKeys ==
  {"constructor", "toString", "valueOf", "hasOwnProperty", "__proto__"}

\* what such a lookup returns, read as a descriptor: a function or object
\* whose emoji, message and step are undefined ("" here)
InheritedEntry == StatusEntry("", "", "")

\* STATUS_CONFIG[status] || DEFAULT_STATUS
getStatusConfig(status) ==
  IF status \in DOMAIN STATUS_CONFIG THEN STATUS_CONFIG[status]
  ELSE IF status \in ObjectPrototypeKeys THEN InheritedEntry
  ELSE DEFAULT_STATUS

getStatusSteps ==
  <<"received", "queue", "printing", "processing",
    "quality", "packaging", "shipped", "delivered">>

\* an index that counts the steps from 1
getStatusIndex_FromOne(step) ==
  IF \E k \in 1..Len(getStatusSteps) : getStatusSteps[k] = step
    THEN CHOOSE k \in 1..Len(getStatusSteps) : getStatusSteps[k] = step
    ELSE -1

\* steps.indexOf(step): 0-based, -1 when absent
getStatusIndex(step) ==
  IF \E k \in 1..Len(getStatusSteps) : getStatusSteps[k] = step
    THEN (CHOOSE k \in 1..Len(getStatusSteps) :
            /\ getStatusSteps[k] = step
            /\ \A j \in 1..(k - 1) : getStatusSteps[j] # step) - 1
    ELSE -1

\* the .timeline-step elements of the page, by index
TimelineSteps == 0..(Len(getStatusSteps) - 1)

(***************************************************************************)
(* The page: scripts loaded, configuration (js/config.js), form layout     *)
(***************************************************************************)
NoUrl == [text |-> "", parses |-> FALSE, protocol |-> ""]
UrlPrinting == [text |-> "https://assets.lottiefiles.com/printing.json",
                parses |-> TRUE, protocol |-> "https:"]
UrlScript == [text |-> "javascript:alert(1)", parses |-> TRUE, protocol |-> "javascript:"]

\* a validator that accepts whatever new URL() parses
isValidURL_AnyProtocol(url) == url.text # "" /\ url.parses

\* utils.isValidURL(url)
isValidURL(url) ==
  IF url.text = "" THEN FALSE
  ELSE IF ~url.parses THEN FALSE
  ELSE url.protocol = "http:" \/ url.protocol = "https:"

\* a string that new URL() does not parse
UrlRelative == [text |-> "animations/queue.json", parses |-> FALSE, protocol |-> ""]

\* config.lottieUrls: a resource for "printing", a bad one for "received",
\* an unparsable one for "queue", none for the other steps
SomeLottieUrls ==
  [step \in {"received", "queue", "printing"} |->
     IF step = "printing" THEN UrlPrinting
     ELSE IF step = "queue" THEN UrlRelative
     ELSE UrlScript]

\* config.lottieUrls as shipped: an https URL for each of the 8 steps
ShippedLottieUrls ==
  [step \in {"received", "queue", "printing", "processing",
             "quality", "packaging", "shipped", "delivered"} |->
     [text |-> "https://assets.lottiefiles.com/packages/" \o step \o ".json",
      parses |-> TRUE, protocol |-> "https:"]]

\* the page as shipped: every script loaded, an endpoint configured, the
\* email field shown, emoji mode
ShippedPage ==
  [ tracker |-> TRUE, api |-> TRUE, utils |-> TRUE,
    apiEndpoint |-> "https://worker.example/orders",
    emailField |-> "visible",
    animationMode |-> "emoji",
    lottieUrls |-> SomeLottieUrls ]

\* the pages explored: the shipped one and those that differ from it in one
\* setting (and, for the animation fallback, lottie mode without utils)
Pages ==
  {ShippedPage}
  \cup {[ShippedPage EXCEPT !.emailField = e] : e \in {"hidden", "absent"}}
  \cup {[ShippedPage EXCEPT !.tracker = FALSE],
        [ShippedPage EXCEPT !.api = FALSE],
        [ShippedPage EXCEPT !.utils = FALSE],
        [ShippedPage EXCEPT !.apiEndpoint = ""],
        [ShippedPage EXCEPT !.animationMode = "lottie"],
        [ShippedPage EXCEPT !.animationMode = "lottie", !.utils = FALSE],
        [ShippedPage EXCEPT !.animationMode = "lottie",
                            !.lottieUrls = ShippedLottieUrls]}

\* const API_ENDPOINT = window.AdditiveArtisanConfig?.orderTracker?.apiEndpoint || ""
API_ENDPOINT == page.apiEndpoint

(***************************************************************************)
(* The tracker view (the DOM of the track section)                         *)
(***************************************************************************)
TextNode(text) == [kind |-> "text", text |-> text, markup |-> FALSE]
\* <span class="error-message">X text</span>
ErrorSpan(parsed) == [kind |-> "error", text |-> parsed.text, markup |-> parsed.markup]

Glyph(name) == [kind |-> "glyph", src |-> name]
Player(url) == [kind |-> "player", src |-> url.text]

NoMarks == [k \in TimelineSteps |-> {}]

\* the track section before any lookup
InitialView ==
  [ statusHidden |-> TRUE,
    message |-> TextNode(<<>>),
    emoji |-> <<Glyph("cat")>>,
    title |-> "",
    timelineDisplay |-> "",
    marks |-> NoMarks,
    product |-> "",
    date |-> "",
    tracking |-> "",
    trackingHidden |-> TRUE,
    detailsHidden |-> TRUE ]

\* renderAnimation without `statusEmoji.innerHTML = ''`: the player is
\* appended to the children already there
renderAnimation_Appends(children, step, statusConfig) ==
  IF page.animationMode = "lottie"
     /\ step \in DOMAIN page.lottieUrls
     /\ page.lottieUrls[step].text # ""
    THEN IF ~(page.utils /\ isValidURL(page.lottieUrls[step]))
           THEN <<Glyph(statusConfig.emoji)>>
           ELSE Append(children, Player(page.lottieUrls[step]))
    ELSE <<Glyph(statusConfig.emoji)>>

\* renderAnimation(step, statusConfig): the children of #status-emoji after
\* the call, given its children before (textContent = x leaves the one text
\* node x; innerHTML = '' then appendChild leaves the one player)
renderAnimation(children, step, statusConfig) ==
  IF page.animationMode = "lottie"
     /\ step \in DOMAIN page.lottieUrls
     /\ page.lottieUrls[step].text # ""
    THEN IF ~(page.utils /\ isValidURL(page.lottieUrls[step]))
           THEN <<Glyph(statusConfig.emoji)>>
           ELSE Append(<<>>, Player(page.lottieUrls[step]))
    ELSE <<Glyph(statusConfig.emoji)>>

\* utils.formatDate(dateString)
formatDate(dateString) ==
  CASE dateString = ""           -> ""
    [] dateString = "2024-12-09" -> "December 9, 2024"
    [] OTHER                     -> "Invalid Date"

\* updateOrderDetails(order)
updateOrderDetails(v, order) ==
  [v EXCEPT
     !.product = IF order.product # "" THEN order.product ELSE @,
     !.date = IF order.createdDate # ""
                THEN (IF page.utils THEN formatDate(order.createdDate)
                                    ELSE order.createdDate)
                ELSE @,
     !.tracking = IF order.trackingNumber # "" THEN order.trackingNumber ELSE @,
     !.trackingHidden = (order.trackingNumber = ""),
     !.detailsHidden = FALSE]

\* updateTimeline without `classList.remove("completed", "active")`: a step
\* keeps the classes it had
updateTimeline_KeepsMarks(v, currentStep) ==
  LET currentIndex == getStatusIndex(currentStep)
  IN [v EXCEPT !.marks =
        [index \in TimelineSteps |->
           IF index < currentIndex THEN v.marks[index] \cup {"completed"}
           ELSE IF index = currentIndex THEN v.marks[index] \cup {"active"}
           ELSE v.marks[index]]]
\* updateTimeline with `index <= currentIndex` for the completed steps: the
\* current step is marked completed and active
updateTimeline_CompletedThrough(v, currentStep) ==
  LET currentIndex == getStatusIndex(currentStep)
  IN [v EXCEPT !.marks =
        [index \in TimelineSteps |->
           IF index < currentIndex THEN {"completed"}
           ELSE IF index = currentIndex THEN {"completed", "active"}
           ELSE {}]]

\* updateTimeline(currentStep)
updateTimeline(v, currentStep) ==
  LET currentIndex == getStatusIndex(currentStep)
  IN [v EXCEPT !.marks =
        [index \in TimelineSteps |->
           IF index < currentIndex THEN {"completed"}
           ELSE IF index = currentIndex THEN {"active"}
           ELSE {}]]

\* displayOrderStatus(orderData) for an envelope that carries an order
displayOrderStatus(v, order) ==
  LET statusConfig == getStatusConfig(order.status)
      v1 == [v EXCEPT !.emoji = renderAnimation(v.emoji, statusConfig.step, statusConfig),
                      !.title = order.status,
                      !.message = TextNode(<<statusConfig.message>>)]
      v2 == updateOrderDetails(v1, order)
      v3 == updateTimeline(v2, statusConfig.step)
  IN [v3 EXCEPT !.statusHidden = FALSE]

\* displayError without its last block: the timeline stays as it was
displayError_KeepsTimeline(v, message) ==
  LET escapedMessage == IF page.utils THEN escapeHTML(message)
                                      ELSE escapeFallback(message)
  IN [v EXCEPT !.message = ErrorSpan(ParseHTML(escapedMessage)),
               !.statusHidden = FALSE]

\* displayError(message)
displayError(v, message) ==
  LET escapedMessage == IF page.utils THEN escapeHTML(message)
                                      ELSE escapeFallback(message)
  IN [v EXCEPT !.message = ErrorSpan(ParseHTML(escapedMessage)),
               !.statusHidden = FALSE,
               !.timelineDisplay = "none"]

\* showLoading()
showLoading(v) ==
  [v EXCEPT !.message = TextNode(<<"Looking up your order...">>),
            !.emoji = <<Glyph("cat")>>,
            !.statusHidden = FALSE,
            !.marks = NoMarks,
            !.timelineDisplay = "flex"]

(***************************************************************************)
(* script.js: local validation of the submit handler                       *)
(***************************************************************************)
NoFormError == [field |-> "", message |-> ""]
FormError(field, message) == [field |-> field, message |-> message]

\* emailInput ? emailInput.value.trim() : ""
EmailValue(emailRaw) == IF page.emailField = "absent" THEN <<>> ELSE Trim(emailRaw)

\* emailInput && !emailInput.closest('.form-group').classList.contains('hidden')
emailFieldVisible == page.emailField = "visible"

\* the checks without the test of the order-id pattern
ValidationError_NoPattern(orderId, email) ==
  IF orderId = <<>>
    THEN FormError("order-id", "Please enter an order number.")
  ELSE IF emailFieldVisible /\ email = <<>>
    THEN FormError("order-email", "Please enter your email address.")
  ELSE IF email # <<>> /\ ~emailRegex(email)
    THEN FormError("order-email", "Please enter a valid email address.")
  ELSE IF ~page.tracker
    THEN FormError("order-id",
                   "Order tracking is currently unavailable. Please try again later.")
  ELSE NoFormError

\* the checks of handleOrderSearch in their order: the error of the first
\* check that fails, NoFormError when all pass
ValidationError(orderId, email) ==
  IF orderId = <<>>
    THEN FormError("order-id", "Please enter an order number.")
  ELSE IF ~orderIdPattern(orderId)
    THEN FormError("order-id", "Invalid order ID format. Expected: AA-2024-0047")
  ELSE IF emailFieldVisible /\ email = <<>>
    THEN FormError("order-email", "Please enter your email address.")
  ELSE IF email # <<>> /\ ~emailRegex(email)
    THEN FormError("order-email", "Please enter a valid email address.")
  ELSE IF ~page.tracker
    THEN FormError("order-id",
                   "Order tracking is currently unavailable. Please try again later.")
  ELSE NoFormError

(***************************************************************************)
(* order_tracker.js: fetchOrderStatus                                      *)
(***************************************************************************)
\* encodeURIComponent over the characters of the form input
EncodeChar(ch) ==
  CASE ch = "@" -> "%40"
    [] ch = " " -> "%20"
    [] ch = "+" -> "%2B"
    [] ch = "%" -> "%25"
    [] OTHER    -> ch

encodeURIComponent(s) == [k \in 1..Len(s) |-> EncodeChar(s[k])]

\* `${API_ENDPOINT}?orderId=${...}` and, if (email), `&email=${...}`
LookupUrl(orderId, email) ==
  [ endpoint |-> API_ENDPOINT,
    orderId |-> encodeURIComponent(orderId),
    hasEmail |-> email # <<>>,
    email |-> encodeURIComponent(email) ]

NoLookupUrl == [endpoint |-> "", orderId |-> <<>>, hasEmail |-> FALSE, email |-> <<>>]

\* a submission of handleOrderSearch that passed validation: pc is where its
\* lookup stands
\*   "none"  no lookup (slot free)
\*   "retry" awaiting fetchWithRetry(url), f is that call
\*   "plain" awaiting fetch(url) (api_helpers.js not loaded)
\*   "json"  awaiting response.json()
\* Two fields record the order of events, which the code keeps nowhere:
\*   older      the slots whose lookups were in flight when this one was
\*              submitted and still are
\*   overtaken  a lookup submitted after this one has resolved already
NoCall ==
  [pc |-> "none", orderId |-> <<>>, email |-> <<>>, url |-> NoLookupUrl,
   f |-> NoFetch, resp |-> NoResp, older |-> {}, overtaken |-> FALSE]

\* fetchOrderStatus(orderId, email) up to its first await
fetchOrderStatusCall(orderId, email) ==
  [ pc |-> IF page.api THEN "retry" ELSE "plain",
    orderId |-> orderId,
    email |-> email,
    url |-> LookupUrl(orderId, email),
    f |-> IF page.api THEN fetchWithRetryCall(DefaultMaxRetries) ELSE NoFetch,
    resp |-> NoResp,
    older |-> {d \in Slots : calls[d].pc # "none"},
    overtaken |-> FALSE ]

\* the servers a URL reaches
NetResponses(url) ==
  IF url.endpoint = "" THEN StaticHostResponses ELSE WorkerResponses

\* the catch of handleOrderSearch: displayError(error.message || "Unable to find ...")
CatchMessage(error) == IF error.message # <<>> THEN error.message ELSE MsgFallback

\* fetchOrderStatus after `await response.json()`: the envelope it returns or
\* the error it throws
fetchOrderStatusParsed(resp) ==
  IF ~resp.body.json
    THEN Threw(Err("SyntaxError", MsgSyntax))
  ELSE IF ~Ok(resp) \/ ~resp.body.success
    THEN Threw(Err("Error", IF resp.body.error # <<>> THEN resp.body.error
                                                    ELSE MsgGeneric))
  ELSE Returned(resp)

(***************************************************************************)
(* Links, hash routing and the deep-link parameters (script.js)            *)
(*                                                                         *)
(* A link is the sequence of tokens that follows the site's "/": the       *)
(* delimiters "?", "#" and "&", a name (a section id, say) and "key=value" *)
(* pairs.  The browser splits it at the first "#": what follows is the     *)
(* fragment, whatever it holds; the query is what stands between the first *)
(* "?" and the fragment.                                                   *)
(***************************************************************************)
Quest == [t |-> "?", k |-> "", v |-> <<>>]
Hash == [t |-> "#", k |-> "", v |-> <<>>]
Amp == [t |-> "&", k |-> "", v |-> <<>>]
Name(n) == [t |-> "name", k |-> n, v |-> <<>>]
Param(key, value) == [t |-> "param", k |-> key, v |-> value]

\* the position of the first token of type t in link, Len(link) + 1 if none
RECURSIVE FirstOf(_, _)
FirstOf(link, t) ==
  IF link = <<>> \/ Head(link).t = t THEN 1 ELSE 1 + FirstOf(Tail(link), t)

\* window.location.hash of a link: "" when there is no fragment, else "#" and
\* the fragment
LocationHash(link) ==
  LET h == FirstOf(link, "#")
  IN IF h >= Len(link) THEN <<>> ELSE SubSeq(link, h, Len(link))

\* window.location.search of a link: "" when there is no query, else "?" and
\* the query
LocationSearch(link) ==
  LET beforeHash == SubSeq(link, 1, FirstOf(link, "#") - 1)
      q == FirstOf(beforeHash, "?")
  IN IF q >= Len(beforeHash) THEN <<>> ELSE SubSeq(beforeHash, q, Len(beforeHash))

\* new URLSearchParams(search).get(key): the value of the first pair with
\* that key, null when there is none
NoParam == [present |-> FALSE, value |-> <<>>]
RECURSIVE SearchParam(_, _)
SearchParam(search, key) ==
  IF search = <<>> THEN NoParam
  ELSE IF Head(search).t = "param" /\ Head(search).k = key
    THEN [present |-> TRUE, value |-> Head(search).v]
  ELSE SearchParam(Tail(search), key)

\* a parameter read from the URL is truthy: present and not ""
Truthy(param) == param.present /\ param.value # <<>>

\* the sections of the page (README: #home, #shop, #track)
Sections == {"home", "shop", "track"}

\* document.getElementById(id) finds a section, id being the tokens of
\* hash.slice(1)
SectionOf(id) == Len(id) = 1 /\ id[1].t = "name" /\ id[1].k \in Sections

\* the delay of the automatic submission, in ms
AutoSubmitDelayMs == 100

\* The routing state of the page
\*   link        the link the page was opened with
\*   search      window.location.search
\*   hash        window.location.hash
\*   section     the section that has the class "active"
\*   orderId     the value of #order-id as checkOrderParam left it
\*   email       the value of #order-email as checkOrderParam left it
\*   autoSubmit  the timer of the automatic submission is armed
\*   delay       the delay that timer was armed with (0 when never armed)
Opened(link) ==
  [ link |-> link, search |-> LocationSearch(link), hash |-> LocationHash(link),
    section |-> "home", orderId |-> <<>>, email |-> <<>>,
    autoSubmit |-> FALSE, delay |-> 0 ]

\* navigateToSection(sectionId): the section becomes the active one and
\* pushState(null, "", "#" + sectionId) replaces the fragment (the query stays)
navigateToSection(n, sectionId) ==
  IF sectionId \notin Sections THEN n
  ELSE [n EXCEPT !.section = sectionId, !.hash = <<Hash, Name(sectionId)>>]

\* handleHashChange()
handleHashChange(n) ==
  LET hash == IF n.hash = <<>> THEN <<>> ELSE Tail(n.hash)
  IN IF hash # <<>> /\ SectionOf(hash)
       THEN navigateToSection(n, hash[1].k)
       ELSE navigateToSection(n, "home")

\* a checkOrderParam that reads the parameters whatever the section
checkOrderParam_AnySection(n, emailInput) ==
  LET orderParam == SearchParam(n.search, "order")
      emailParam == SearchParam(n.search, "email")
  IN IF Truthy(orderParam)
       THEN [n EXCEPT !.orderId = orderParam.value,
                      !.email = IF Truthy(emailParam) /\ emailInput
                                  THEN emailParam.value ELSE @,
                      !.autoSubmit = TRUE,
                      !.delay = AutoSubmitDelayMs]
       ELSE n

\* checkOrderParam(), emailInput telling whether #order-email exists
checkOrderParam(n, emailInput) ==
  LET orderParam == SearchParam(n.search, "order")
      emailParam == SearchParam(n.search, "email")
  IN IF Truthy(orderParam) /\ n.hash = <<Hash, Name("track")>>
       THEN [n EXCEPT !.orderId = orderParam.value,
                      !.email = IF Truthy(emailParam) /\ emailInput
                                  THEN emailParam.value ELSE @,
                      !.autoSubmit = TRUE,
                      !.delay = AutoSubmitDelayMs]
       ELSE n

\* setupRouting() on a page opened with link: handleHashChange(), then
\* checkOrderParam()
setupRouting(link, emailInput) ==
  checkOrderParam(handleHashChange(Opened(link)), emailInput)

\* the link of the track section without parameters
TrackLink == <<Hash, Name("track")>>

(***************************************************************************)
(* The product module (products.js)                                        *)
(***************************************************************************)
\* a product of data/products.json, as far as the grid depends on it
Product(id, category, active) == [id |-> id, category |-> category, active |-> active]

\* the categories of the products explored, in the order of Array.sort()
CategoryOrder == <<"dice", "mtg">>

\* <article class="product-card" data-category=... data-id=...>
createProductCardHTML(product) == [id |-> product.id, category |-> product.category]

RECURSIVE MapCards(_)
MapCards(products) ==
  IF products = <<>> THEN <<>>
  ELSE <<createProductCardHTML(Head(products))>> \o MapCards(Tail(products))

\* products.filter((p) => p.active)
ActiveOnly(products) == SelectSeq(products, LAMBDA p : p.active)

\* the grid of the product section
\*   state  "initial" as served, "loading" the spinner, "error" a message,
\*          "cards" the product cards
NoGrid == [state |-> "initial", cards |-> <<>>]
GridLoading == [state |-> "loading", cards |-> <<>>]
GridError == [state |-> "error", cards |-> <<>>]

\* renderProducts(products, filter), as far as #product-grid goes
renderProducts(products, filter) ==
  LET filteredProducts ==
        IF filter = "all" THEN products
        ELSE SelectSeq(products, LAMBDA p : p.category = filter)
  IN [state |-> "cards", cards |-> MapCards(filteredProducts)]

\* generateFilters(): "all", then the categories of allProducts, sorted
generateFilters(allProducts) ==
  LET categories == {allProducts[k].category : k \in DOMAIN allProducts}
  IN <<"all">> \o SelectSeq(CategoryOrder, LAMBDA c : c \in categories)

\* The product module
\*   pc             "start" before initProducts, "loading" while it awaits
\*                  loadProducts, "ready" or "failed" once it returned
\*   catalogue      data.products of data/products.json
\*   allProducts    the module's allProducts
\*   currentFilter  the module's currentFilter
\*   grid           #product-grid
\*   filters        the data-filter of the buttons of .product-filters
NoShop ==
  [ pc |-> "start", catalogue |-> <<>>, allProducts |-> <<>>,
    currentFilter |-> "all", grid |-> NoGrid, filters |-> <<>> ]

\* initProducts() from the return of loadProducts() on; ok tells whether
\* data/products.json was fetched and parsed.  loadProducts() keeps the
\* active products in allProducts and returns the data as fetched, or the
\* empty structure when it caught an error
initProductsLoaded(sh, ok) ==
  IF ~ok \/ sh.catalogue = <<>>
    THEN [sh EXCEPT !.pc = "failed", !.grid = GridError]
  ELSE [sh EXCEPT !.pc = "ready",
                  !.allProducts = ActiveOnly(sh.catalogue),
                  !.grid = renderProducts(sh.catalogue, "all"),
                  !.currentFilter = "all",
                  !.filters = generateFilters(ActiveOnly(sh.catalogue))]

\* handleFilterClick(e) on the button of a filter
handleFilterClick(sh, filter) ==
  [sh EXCEPT !.grid = renderProducts(sh.allProducts, filter),
             !.currentFilter = filter]

(***************************************************************************)
(* utils.debounce (utils.js)                                               *)
(***************************************************************************)
\* A function made by debounce(func, wait), its closure and the clock
\*   wait     the wait it was made with
\*   now      the time, in units of the clock
\*   armed    the timer of `timeout` is armed
\*   due      the time that timer is due
\*   args     the arguments the callback `later` of that timer holds
\*   log      the invocations of func: when, and with what arguments
\* and, of the history of the calls (the closure keeps none of it)
\*   lastAt   the time of the last call (-1 before the first)
\*   lastArgs the arguments of the last call
\*   calls    the number of calls
\*   bursts   the number of bursts: a call opens one when it is the first or
\*            follows the call before it by wait or more
NoDeb ==
  [ wait |-> 1, now |-> 0, armed |-> FALSE, due |-> 0, args |-> "",
    log |-> <<>>, lastAt |-> -1, lastArgs |-> "", calls |-> 0, bursts |-> 0 ]

\* an executedFunction that leaves an armed timer alone (the function is
\* invoked wait after the first call of a burst)
executedFunction_Leading(d, a) ==
  [d EXCEPT !.armed = TRUE,
            !.due = IF d.armed THEN @ ELSE d.now + d.wait,
            !.args = IF d.armed THEN @ ELSE a,
            !.lastAt = d.now,
            !.lastArgs = a,
            !.calls = @ + 1,
            !.bursts = IF d.lastAt < 0 \/ d.now - d.lastAt >= d.wait THEN @ + 1 ELSE @]

\* executedFunction(...args): clearTimeout(timeout);
\* timeout = setTimeout(later, wait)
executedFunction(d, a) ==
  [d EXCEPT !.armed = TRUE,
            !.due = d.now + d.wait,
            !.args = a,
            !.lastAt = d.now,
            !.lastArgs = a,
            !.calls = @ + 1,
            !.bursts = IF d.lastAt < 0 \/ d.now - d.lastAt >= d.wait THEN @ + 1 ELSE @]

\* later(): clearTimeout(timeout); func(...args)
later(d) ==
  [d EXCEPT !.armed = FALSE,
            !.log = Append(@, [at |-> d.now, args |-> d.args])]

(***************************************************************************)
(* Theme management (script.js)                                            *)
(***************************************************************************)
\* localStorage.getItem("theme"): null when nothing is stored
NoItem == [present |-> FALSE, value |-> ""]
Item(value) == [present |-> TRUE, value |-> value]

\* the value read from the storage is truthy: stored and not ""
TruthyItem(item) == item.present /\ item.value # ""

\* the theme as far as script.js reads and writes it
\*   pc             "load" before initTheme(), "ready" after: the listener of
\*                  the system preference is registered, the button wired
\*   attr           the data-theme attribute of <html> ("" when absent)
\*   stored         the item "theme" of localStorage
\*   systemDark     (prefers-color-scheme: dark) matches
\*   ariaLabel      the aria-label of the toggle button
\*   transitioning  <body> has the class theme-transitioning
\*   pulsing        the button has the class pulsing
\*   origin         the body style holds the position of the last click
\*   pendingPulse, pendingTransition
\*                  the 600 ms timers of toggleTheme not fired yet
\* and, of the history,
\*   removed        the stored item was removed from outside since setTheme
\*                  last wrote it
\*   derived        initTheme() found no stored theme and took the system
\*                  preference
NoTheme ==
  [ pc |-> "load", attr |-> "", stored |-> NoItem, systemDark |-> FALSE,
    ariaLabel |-> "", transitioning |-> FALSE, pulsing |-> FALSE, origin |-> FALSE,
    pendingPulse |-> 0, pendingTransition |-> 0, removed |-> FALSE, derived |-> FALSE ]

\* getPreferredTheme()
getPreferredTheme(t) ==
  IF TruthyItem(t.stored) THEN t.stored.value
  ELSE IF t.systemDark THEN "dark" ELSE "light"

\* a setTheme that writes the attribute and the label, not the storage
setTheme_AttributeOnly(t, newTheme) ==
  [t EXCEPT !.attr = newTheme,
            !.ariaLabel = IF newTheme = "dark" THEN "Switch to light mode"
                                               ELSE "Switch to dark mode"]

\* setTheme(theme)
setTheme(t, newTheme) ==
  [t EXCEPT !.attr = newTheme,
            !.stored = Item(newTheme),
            !.removed = FALSE,
            !.ariaLabel = IF newTheme = "dark" THEN "Switch to light mode"
                                               ELSE "Switch to dark mode"]

\* toggleTheme(e) up to its return; atPoint: e carries clientX and clientY
toggleTheme(t, atPoint) ==
  LET currentTheme == IF t.attr # "" THEN t.attr ELSE "light"
      newTheme == IF currentTheme = "dark" THEN "light" ELSE "dark"
      t1 == [t EXCEPT !.transitioning = TRUE,
                      !.pulsing = TRUE,
                      !.pendingPulse = @ + 1,
                      !.origin = @ \/ atPoint]
  IN [setTheme(t1, newTheme) EXCEPT !.pendingTransition = @ + 1]

\* an initTheme that stores the theme only when the user had chosen one: a
\* theme derived from the system preference is applied, not stored
initTheme_StoresChoiceOnly(t) ==
  LET chosen == getPreferredTheme(t)
  IN [(IF TruthyItem(t.stored) THEN setTheme(t, chosen)
                               ELSE setTheme_AttributeOnly(t, chosen))
        EXCEPT !.pc = "ready", !.derived = ~TruthyItem(t.stored)]

\* initTheme(): the theme is set, the listener registered
initTheme(t) ==
  [setTheme(t, getPreferredTheme(t)) EXCEPT !.pc = "ready",
                                            !.derived = ~TruthyItem(t.stored)]

\* the listener of (prefers-color-scheme: dark) for the event e
systemThemeChanged(t, matches) ==
  IF ~TruthyItem(t.stored)
    THEN setTheme(t, IF matches THEN "dark" ELSE "light")
    ELSE t

(***************************************************************************)
(* The service worker (sw.js)                                              *)
(***************************************************************************)
\* requests the worker handles at once, versions of a resource on the server
MaxSwRequests == 2
MaxVersions == 2

SwSlots == 1..MaxSwRequests

\* const CACHE_URLS = [...]: of the eleven, the one the model requests
CACHE_URLS == {"/index.html"}

\* the same-origin resources requested: one that install caches, one that it
\* does not
SwUrls == CACHE_URLS \cup {"/images/logo.png"}

\* an entry of the cache 'additive-artisan-v1', by URL
NoEntry == [present |-> FALSE, status |-> 0, type |-> "", version |-> 0]
Entry(resp) ==
  [present |-> TRUE, status |-> resp.status, type |-> resp.type, version |-> resp.version]

\* a response of the network; version tells the contents apart
NetResponse(status, type, version) == [status |-> status, type |-> type, version |-> version]

\* what respondWith was given
\*   from  "none" not answered yet, "cache", "network", "index" (the fallback
\*         of the catch), "browser" (the event was not intercepted)
NoAnswer == [from |-> "none", entry |-> NoEntry]

\* a run of the fetch handler
\*   pc        "idle", "match" awaiting caches.match(event.request), "fetch"
\*             awaiting fetch(event.request), "fallback" awaiting
\*             caches.match('/index.html'), "put" awaiting caches.open and
\*             cache.put, "done"
\*   resp      the clone to be stored
\* and, of the history,
\*   hadEntry  the request had an entry in the cache when its event came
\*   network   the handler called fetch(event.request)
NoRun ==
  [ pc |-> "idle", url |-> "", method |-> "", sameOrigin |-> TRUE,
    resp |-> NetResponse(0, "", 0), answer |-> NoAnswer,
    hadEntry |-> FALSE, network |-> FALSE ]

\*   pc      "none" before the install event, "active" after
\*   cache   the cache, by URL
\*   server  the version of the resources the server holds
\*   run     the runs of the fetch handler
NoSw ==
  [ pc |-> "none",
    cache |-> [u \in SwUrls |-> NoEntry],
    server |-> 1,
    run |-> [k \in SwSlots |-> NoRun] ]

\* the install event: cache.addAll(CACHE_URLS) stores all or nothing, the
\* catch swallows the failure
onInstall(s, ok) ==
  [s EXCEPT !.pc = "active",
            !.cache = [u \in SwUrls |->
                         IF ok /\ u \in CACHE_URLS
                           THEN Entry(NetResponse(200, "basic", s.server))
                           ELSE s.cache[u]]]

\* the fetch event up to its first await
onFetch(s, k, url, method, sameOrigin) ==
  LET r == [NoRun EXCEPT !.url = url, !.method = method, !.sameOrigin = sameOrigin,
                         !.hadEntry = sameOrigin /\ method = "GET" /\ s.cache[url].present]
  IN IF method # "GET" \/ ~sameOrigin
       THEN [s EXCEPT !.run[k] = [r EXCEPT !.pc = "done", !.answer.from = "browser"]]
       ELSE [s EXCEPT !.run[k] = [r EXCEPT !.pc = "match"]]

\* caches.match(event.request) resolved
onMatch(s, k) ==
  LET cachedResponse == s.cache[s.run[k].url]
  IN IF cachedResponse.present
       THEN [s EXCEPT !.run[k].pc = "done",
                      !.run[k].answer = [from |-> "cache", entry |-> cachedResponse]]
       ELSE [s EXCEPT !.run[k].pc = "fetch", !.run[k].network = TRUE]

\* a handler that stores every response it gets from the network
onNetworkResponse_StoresAll(s, k, networkResponse) ==
  [s EXCEPT !.run[k].pc = "put",
            !.run[k].resp = networkResponse,
            !.run[k].answer = [from |-> "network", entry |-> Entry(networkResponse)]]

\* fetch(event.request) resolved with networkResponse
onNetworkResponse(s, k, networkResponse) ==
  IF networkResponse.status # 200 \/ networkResponse.type # "basic"
    THEN [s EXCEPT !.run[k].pc = "done",
                   !.run[k].answer = [from |-> "network", entry |-> Entry(networkResponse)]]
    ELSE [s EXCEPT !.run[k].pc = "put",
                   !.run[k].resp = networkResponse,
                   !.run[k].answer = [from |-> "network", entry |-> Entry(networkResponse)]]

\* fetch(event.request) rejected: the catch
onNetworkError(s, k) == [s EXCEPT !.run[k].pc = "fallback"]

\* caches.match('/index.html') of the catch resolved
onFallback(s, k) ==
  [s EXCEPT !.run[k].pc = "done",
            !.run[k].answer = [from |-> "index", entry |-> s.cache["/index.html"]]]

\* caches.open(CACHE_NAME) resolved and cache.put stored the clone
onPut(s, k) ==
  [s EXCEPT !.cache[s.run[k].url] = Entry(s.run[k].resp),
            !.run[k].pc = "done"]

(***************************************************************************)
(* State                                                                   *)
(*   page       scripts loaded, configuration, form layout (fixed at load) *)
(*   nav        the address, the active section and what the deep-link     *)
(*              parameters left in the form                                *)
(*   shop       the product module: the products loaded, the grid          *)
(*   deb        a function made by utils.debounce, its timer and a record  *)
(*              of the invocations of the function it wraps                *)
(*   theme      the theme: the data-theme attribute, the stored value, the *)
(*              system preference, the toggle button and the page body     *)
(*   sw         the service worker: its cache, the requests it answers     *)
(*   calls      the lookups of the submissions in flight, by slot          *)
(*   timers     the armed abort timers of fetchWithTimeout                 *)
(*   view       the track section                                          *)
(*   formError  the inline field error of the search form                  *)
(*   unhandled  the errors that left handleOrderSearch as a rejection of   *)
(*              its promise (they reach the window's unhandledrejection)   *)
(*   direct     a caller of fetchWithRetry(url, {}, n) over a transport    *)
(*              that records each attempt and each backoff delay           *)
(*   probe      a caller of the tracker's exported functions, and of the   *)
(*              form validation, that records its last call                *)
(***************************************************************************)
NoDirect == [f |-> NoFetch, log |-> <<>>]

\* the caller of the tracker's functions and of the form validation has made
\* no call yet
NoProbe == [op |-> "none"]

LogAttempt(outcome) == [ev |-> "attempt", out |-> outcome, ms |-> 0]
LogDelay(ms) == [ev |-> "delay", out |-> NetError, ms |-> ms]

Init ==
  /\ page \in Pages
  /\ nav = setupRouting(TrackLink, page.emailField # "absent")
  /\ shop = NoShop
  /\ deb = NoDeb
  /\ calls = [c \in Slots |-> NoCall]
  /\ timers = {}
  /\ view = InitialView
  /\ formError = NoFormError
  /\ unhandled = {}
  /\ direct = NoDirect
  /\ probe = NoProbe
  /\ theme = NoTheme
  /\ sw = NoSw

(***************************************************************************)
(* The submit handler and the lookup                                       *)
(***************************************************************************)
\* a handler whose catch displays the error and calls fetchOrderStatus again
LookupFails_Retries(c, error) ==
  /\ view' = displayError(view, CatchMessage(error))
  /\ calls' = [calls EXCEPT ![c] = fetchOrderStatusCall(calls[c].orderId, calls[c].email)]
  /\ unhandled' = unhandled

\* a handler whose try block ends before displayOrderStatus: a TypeError
\* raised after the lookup leaves handleOrderSearch as a rejection
LookupFails_TypeErrorEscapes(c, error) ==
  /\ calls' = [d \in Slots |-> IF d = c THEN NoCall ELSE calls[d]]
  /\ IF error.name = "TypeError"
       THEN view' = view /\ unhandled' = unhandled \cup {error.message}
       ELSE view' = displayError(view, CatchMessage(error)) /\ unhandled' = unhandled

\* the slots once the lookup of slot c has resolved: nothing but the slot of c
\* changes, and the lookups submitted before c that are still in flight have
\* been overtaken
Resolved(c) ==
  [d \in Slots |->
     IF d = c THEN NoCall
     ELSE [calls[d] EXCEPT !.older = @ \ {c},
                           !.overtaken = @ \/ (d \in calls[c].older)]]

\* a handler that drops the outcome of a lookup that a later one has overtaken
LookupFails_DropsStale(c, error) ==
  /\ view' = IF calls[c].overtaken THEN view ELSE displayError(view, CatchMessage(error))
  /\ calls' = Resolved(c)
  /\ unhandled' = unhandled
\* a handler whose catch ends the lookup without displaying the error
LookupFails_Silent(c, error) ==
  /\ view' = view
  /\ calls' = Resolved(c)
  /\ unhandled' = unhandled

\* the lookup of slot c ended with an error thrown to handleOrderSearch
LookupFails(c, error) ==
  /\ view' = displayError(view, CatchMessage(error))
  /\ calls' = Resolved(c)
  /\ unhandled' = unhandled

\* fetchWithRetry of slot c moved to g: fetchOrderStatus and the handler go on
\* as far as they can without awaiting
LookupAfterFetch(c, g) ==
  CASE g.pc = "rejected" -> LookupFails(c, g.error)
    [] g.pc = "resolved" ->
         IF g.resp = NoResp
           THEN LookupFails(c, Err("TypeError", MsgUndefinedJson))
           ELSE /\ calls' = [calls EXCEPT ![c].pc = "json", ![c].f = NoFetch,
                                          ![c].resp = g.resp]
                /\ UNCHANGED <<view, unhandled>>
    [] OTHER ->
         /\ calls' = [calls EXCEPT ![c].f = g]
         /\ UNCHANGED <<view, unhandled>>

\* the slot a submission that passes validation takes: the lowest free one
FreeSlots == {c \in Slots : calls[c].pc = "none"}
FreeSlot == CHOOSE c \in FreeSlots : \A d \in FreeSlots : c <= d

\* a handler that aborts the lookups in flight when it starts one
handleOrderSearch_CancelsPrior(idRaw, emailRaw) ==
  LET orderId == Trim(idRaw)
      email == EmailValue(emailRaw)
      error == ValidationError(orderId, email)
  IN IF error # NoFormError
       THEN /\ formError' = error
            /\ UNCHANGED <<page, theme, sw, shop, deb, calls, timers, view, unhandled, direct, probe>>
       ELSE LET call == fetchOrderStatusCall(orderId, email)
            IN /\ formError' = NoFormError
               /\ view' = showLoading(view)
               /\ calls' = [c \in Slots |-> IF c = 1 THEN call ELSE NoCall]
               /\ timers' = TimersAfter(1, NoFetch, call.f, NetError)
               /\ unhandled' = unhandled
               /\ UNCHANGED <<page, theme, sw, shop, deb, direct, probe>>

\* a handler that enters Loading before it checks the fields
handleOrderSearch_LoadingFirst(idRaw, emailRaw) ==
  LET orderId == Trim(idRaw)
      email == EmailValue(emailRaw)
      error == ValidationError(orderId, email)
  IN IF error # NoFormError
       THEN /\ formError' = error
            /\ view' = showLoading(view)
            /\ UNCHANGED <<page, theme, sw, shop, deb, calls, timers, unhandled, direct, probe>>
       ELSE LET call == fetchOrderStatusCall(orderId, email)
            IN /\ FreeSlots # {}
               /\ formError' = NoFormError
               /\ view' = showLoading(view)
               /\ calls' = [calls EXCEPT ![FreeSlot] = call]
               /\ timers' = TimersAfter(FreeSlot, NoFetch, call.f, NetError)
               /\ unhandled' = unhandled
               /\ UNCHANGED <<page, theme, sw, shop, deb, direct, probe>>

\* handleOrderSearch(e) with idRaw, emailRaw in the form fields.  Nothing in
\* it looks at the lookups in flight; FreeSlots # {} is the bound of the model
handleOrderSearch(idRaw, emailRaw) ==
  LET orderId == Trim(idRaw)
      email == EmailValue(emailRaw)
      error == ValidationError(orderId, email)
  IN IF error # NoFormError
       THEN /\ formError' = error
            /\ UNCHANGED <<page, theme, sw, shop, deb, calls, timers, view, unhandled, direct, probe>>
       ELSE LET call == fetchOrderStatusCall(orderId, email)
            IN /\ FreeSlots # {}
               /\ formError' = NoFormError
               /\ view' = showLoading(view)
               /\ calls' = [calls EXCEPT ![FreeSlot] = call]
               /\ timers' = TimersAfter(FreeSlot, NoFetch, call.f, NetError)
               /\ unhandled' = unhandled
               /\ UNCHANGED <<page, theme, sw, shop, deb, direct, probe>>

\* the user submits the form with idRaw, emailRaw in its fields
HandleOrderSearch(idRaw, emailRaw) ==
  /\ handleOrderSearch(idRaw, emailRaw)
  /\ UNCHANGED nav

\* the fetch of the current attempt of slot c settles (response or network
\* error) before its timer fires
NetSettles(c, outcome) ==
  /\ calls[c].pc = "retry"
  /\ calls[c].f.pc = "attempt"
  /\ outcome \in Outcomes(NetResponses(calls[c].url))
  /\ LET g == fetchWithRetryBody(calls[c].f, fetchWithTimeout(outcome))
     IN /\ timers' = TimersAfter(c, calls[c].f, g, outcome)
        /\ LookupAfterFetch(c, g)
  /\ UNCHANGED <<page, theme, sw, nav, shop, deb, formError, direct, probe>>

\* an abort timer of a lookup fires: controller.abort() rejects the fetch of
\* its attempt with AbortError
TimerFires(t) ==
  /\ t \in timers
  /\ t.owner \in Slots
  /\ LET c == t.owner
     IN IF calls[c].pc = "retry" /\ calls[c].f.pc = "attempt"
           /\ calls[c].f.attempts = t.attempt
          THEN LET g == fetchWithRetryBody(calls[c].f, fetchWithTimeout(Aborted))
               IN /\ timers' = TimersAfter(c, calls[c].f, g, Aborted) \ {t}
                  /\ LookupAfterFetch(c, g)
          ELSE \* the controller of a fetch that settled: nothing awaits it
               /\ timers' = timers \ {t}
               /\ UNCHANGED <<calls, view, unhandled>>
  /\ UNCHANGED <<page, theme, sw, nav, shop, deb, formError, direct, probe>>

\* the backoff timer of slot c fires
BackoffFires(c) ==
  /\ calls[c].pc = "retry"
  /\ calls[c].f.pc = "wait"
  /\ LET g == fetchWithRetryResume(calls[c].f)
     IN /\ timers' = TimersAfter(c, calls[c].f, g, NetError)
        /\ LookupAfterFetch(c, g)
  /\ UNCHANGED <<page, theme, sw, nav, shop, deb, formError, direct, probe>>

\* fetch(url) of slot c settles (api_helpers.js not loaded: no timer, no retry)
PlainSettles(c, outcome) ==
  /\ calls[c].pc = "plain"
  /\ outcome \in Outcomes(NetResponses(calls[c].url))
  /\ LET done == fetchWithTimeout(outcome)
     IN IF done.threw
          THEN LookupFails(c, done.error)
          ELSE /\ calls' = [calls EXCEPT ![c].pc = "json", ![c].resp = done.resp]
               /\ UNCHANGED <<view, unhandled>>
  /\ UNCHANGED <<page, theme, sw, nav, shop, deb, timers, formError, direct, probe>>

\* response.json() of slot c settles: the rest of fetchOrderStatus and of
\* handleOrderSearch
JsonSettles(c) ==
  /\ calls[c].pc = "json"
  /\ LET done == fetchOrderStatusParsed(calls[c].resp)
     IN IF done.threw
          THEN LookupFails(c, done.error)
          ELSE IF ~done.resp.body.order.present
            THEN \* displayOrderStatus: order.status of undefined
                 LookupFails(c, Err("TypeError", MsgNoOrder))
            ELSE /\ view' = displayOrderStatus(view, done.resp.body.order)
                 /\ calls' = Resolved(c)
                 /\ unhandled' = unhandled
  /\ UNCHANGED <<page, theme, sw, nav, shop, deb, timers, formError, direct, probe>>

Next ==
  \/ \E idRaw \in OrderIdInputs, emailRaw \in EmailInputs :
       HandleOrderSearch(idRaw, emailRaw)
  \/ \E c \in Slots : \E outcome \in Outcomes(WorkerResponses \cup StaticHostResponses) :
       NetSettles(c, outcome)
  \/ \E t \in timers : TimerFires(t)
  \/ \E c \in Slots : BackoffFires(c)
  \/ \E c \in Slots : \E outcome \in Outcomes(WorkerResponses \cup StaticHostResponses) :
       PlainSettles(c, outcome)
  \/ \E c \in Slots : JsonSettles(c)

Spec == Init /\ [][Next]_vars

(***************************************************************************)
(* A direct caller of fetchWithRetry over a recording transport            *)
(***************************************************************************)
\* the log after the fetch record moved to g
LogAfter(log, g) ==
  IF g.pc = "wait" THEN Append(log, LogDelay(BackoffMs(g.i))) ELSE log

\* fetchWithRetry(url, {}, maxRetries) is called
DirectCall(maxRetries) ==
  /\ direct.f.pc = "idle"
  /\ LET g == fetchWithRetryCall(maxRetries)
     IN /\ direct' = [f |-> g, log |-> <<>>]
        /\ timers' = TimersAfter(0, NoFetch, g, NetError)
  /\ UNCHANGED <<page, theme, sw, nav, shop, deb, calls, view, formError, unhandled, probe>>

\* the transport settles the current attempt before its timer fires
DirectNetSettles(outcome) ==
  /\ direct.f.pc = "attempt"
  /\ LET g == fetchWithRetryBody(direct.f, fetchWithTimeout(outcome))
     IN /\ direct' = [f |-> g, log |-> LogAfter(Append(direct.log, LogAttempt(outcome)), g)]
        /\ timers' = TimersAfter(0, direct.f, g, outcome)
  /\ UNCHANGED <<page, theme, sw, nav, shop, deb, calls, view, formError, unhandled, probe>>

\* an abort timer of the direct caller fires
DirectTimerFires(t) ==
  /\ t \in timers
  /\ t.owner = 0
  /\ IF direct.f.pc = "attempt" /\ direct.f.attempts = t.attempt
       THEN LET g == fetchWithRetryBody(direct.f, fetchWithTimeout(Aborted))
            IN /\ direct' = [f |-> g,
                             log |-> LogAfter(Append(direct.log, LogAttempt(Aborted)), g)]
               /\ timers' = TimersAfter(0, direct.f, g, Aborted) \ {t}
       ELSE /\ timers' = timers \ {t}
            /\ UNCHANGED direct
  /\ UNCHANGED <<page, theme, sw, nav, shop, deb, calls, view, formError, unhandled, probe>>

\* the backoff timer of the direct caller fires
DirectBackoffFires ==
  /\ direct.f.pc = "wait"
  /\ LET g == fetchWithRetryResume(direct.f)
     IN /\ direct' = [direct EXCEPT !.f = g]
        /\ timers' = TimersAfter(0, direct.f, g, NetError)
  /\ UNCHANGED <<page, theme, sw, nav, shop, deb, calls, view, formError, unhandled, probe>>

NextFetch ==
  \/ \E maxRetries \in 0..MaxRetriesArg : DirectCall(maxRetries)
  \/ \E outcome \in Outcomes(WorkerResponses \cup StaticHostResponses) :
       DirectNetSettles(outcome)
  \/ \E t \in timers : DirectTimerFires(t)
  \/ DirectBackoffFires

SpecFetch == Init /\ [][NextFetch]_vars

(***************************************************************************)
(* The validation of handleOrderSearch over a wider set of identifiers     *)
(***************************************************************************)
ValidId == <<"A","A","-","2","0","2","4","-","0","0","4","7">>

\* the characters tried at each position of an identifier
IdAlphabet == {"A", "Z", "a", "0", "9", "-", " ", "_"}

\* what a user may type: the identifiers of OrderIdInputs, ValidId with one
\* character replaced, removed or added, and each of these between spaces
TypedIds ==
  LET substituted == {[ValidId EXCEPT ![k] = ch] : k \in 1..Len(ValidId), ch \in IdAlphabet}
      removed == {SubSeq(ValidId, 1, k - 1) \o SubSeq(ValidId, k + 1, Len(ValidId)) :
                    k \in 1..Len(ValidId)}
      added == {SubSeq(ValidId, 1, k) \o <<ch>> \o SubSeq(ValidId, k + 1, Len(ValidId)) :
                  k \in 0..Len(ValidId), ch \in {"A", "0", "-"}}
      typed == OrderIdInputs \cup substituted \cup removed \cup added
      pad == {<<>>, <<" ">>, <<" ", " ">>}
  IN typed \cup {l \o ValidId \o r : l \in pad, r \in pad}
           \cup {<<" ">> \o t : t \in removed} \cup {t \o <<" ">> : t \in added}

\* handleOrderSearch(e) up to the end of its checks, with idRaw and emailRaw in
\* the form fields: the caller records the fields and the error shown
Validate(idRaw, emailRaw) ==
  /\ probe' = [ op |-> "validate", orderId |-> idRaw, email |-> emailRaw,
                error |-> ValidationError(Trim(idRaw), EmailValue(emailRaw)) ]
  /\ UNCHANGED <<page, theme, sw, nav, shop, deb, calls, timers, view, formError, unhandled, direct>>

NextForm == \E idRaw \in TypedIds, emailRaw \in EmailInputs : Validate(idRaw, emailRaw)

SpecForm == Init /\ [][NextForm]_vars

(***************************************************************************)
(* A caller of the functions that order_tracker.js exports on              *)
(* window.AdditiveArtisanTracker, in any order                             *)
(***************************************************************************)
\* an order that carries its status only
BareOrder(status) ==
  [present |-> TRUE, status |-> status, product |-> "", createdDate |-> "",
   trackingNumber |-> ""]

\* the orders displayed: one for each label of the registry, one whose status
\* names an inherited property, and those the worker answers with (one of
\* them with a label the registry does not have)
RenderOrders ==
  {BareOrder(label) : label \in DOMAIN STATUS_CONFIG \cup {"constructor"}} \cup Orders

\* the messages displayed: a plain one, the worker's, one with markup
RenderMessages ==
  {MsgGeneric, MsgNotFound, <<"<", "img src=x onerror=alert(1)", ">">>}

\* the pages on which the tracker's functions exist
InitView == Init /\ page.tracker

CallShowLoading ==
  /\ view' = showLoading(view)
  /\ probe' = [op |-> "showLoading"]
  /\ UNCHANGED <<page, theme, sw, nav, shop, deb, calls, timers, formError, unhandled, direct>>

CallDisplayOrderStatus(order) ==
  /\ view' = displayOrderStatus(view, order)
  /\ probe' = [op |-> "displayOrderStatus", order |-> order]
  /\ UNCHANGED <<page, theme, sw, nav, shop, deb, calls, timers, formError, unhandled, direct>>

CallDisplayError(message) ==
  /\ view' = displayError(view, message)
  /\ probe' = [op |-> "displayError", message |-> message]
  /\ UNCHANGED <<page, theme, sw, nav, shop, deb, calls, timers, formError, unhandled, direct>>

\* getStatus(status), then getStatusSteps().indexOf(its step)
CallGetStatus(status) ==
  /\ probe' = [op |-> "getStatus", status |-> status,
                config |-> getStatusConfig(status),
                index |-> getStatusIndex(getStatusConfig(status).step)]
  /\ UNCHANGED <<page, theme, sw, nav, shop, deb, calls, timers, view, formError, unhandled, direct>>

NextView ==
  \/ CallShowLoading
  \/ \E order \in RenderOrders : CallDisplayOrderStatus(order)
  \/ \E message \in RenderMessages : CallDisplayError(message)
  \/ \E order \in RenderOrders : CallGetStatus(order.status)

SpecView == InitView /\ [][NextView]_vars

(***************************************************************************)
(* displayError over a wider set of messages                               *)
(***************************************************************************)
MaxMessageLen == 3

\* the chunks of a message: the characters HTML gives a meaning to, and text
MessageChunks == {"<", ">", "&", "\"", "'", "b"}

RECURSIVE SeqsUpTo(_, _)
SeqsUpTo(set, n) ==
  IF n = 0 THEN {<<>>}
  ELSE LET shorter == SeqsUpTo(set, n - 1)
       IN shorter \cup {Append(q, x) : q \in shorter, x \in set}

Messages == SeqsUpTo(MessageChunks, MaxMessageLen)

NextEscape == \E message \in Messages : CallDisplayError(message)

SpecEscape == InitView /\ [][NextEscape]_vars

(***************************************************************************)
(* Vocabulary of the properties                                            *)
(***************************************************************************)
IsAttempt(e) == e.ev = "attempt"
IsDelay(e) == e.ev = "delay"

\* the attempts and the delays the transport recorded, in order
AttemptLog == SelectSeq(direct.log, IsAttempt)
DelayLog == SelectSeq(direct.log, IsDelay)

\* the call of the direct caller has settled
Settled == direct.f.pc \in {"resolved", "rejected"}

\* an attempt failed: timeout, network error or non-2xx response
Failed(outcome) == outcome.kind # "response" \/ outcome.resp.status \notin 200..299

\* the failure an attempt that ended with outcome stands for
FailureOf(outcome) ==
  CASE outcome.kind = "abort"  -> Err("Error", MsgTimeout)
    [] outcome.kind = "neterr" -> Err("TypeError", MsgFailedToFetch)
    [] OTHER -> Err("Error", <<"HTTP ", outcome.resp.statusStr, ": ", outcome.resp.statusText>>)

LastAttempt == AttemptLog[Len(AttemptLog)]

\* number of attempts recorded before position p of the log
AttemptsBefore(p) == Len(SelectSeq(SubSeq(direct.log, 1, p - 1), IsAttempt))

(***************************************************************************)
(* C1: for every maxRetries >= 1, when every attempt of fetchWithRetry     *)
(* failed, the call made exactly maxRetries attempts and rejected with the *)
(* failure of the last attempt.                                            *)
(***************************************************************************)
C1_LastFailurePropagated ==
  ( /\ Settled
    /\ direct.f.maxRetries >= 1
    /\ \A k \in 1..Len(AttemptLog) : Failed(AttemptLog[k].out) )
  => /\ direct.f.pc = "rejected"
     /\ Len(AttemptLog) = direct.f.maxRetries
     /\ direct.f.error = FailureOf(LastAttempt.out)

\* three failed attempts, the first a timeout, the last a 404: rejected
C1_Witness ==
  /\ direct.f.pc = "rejected"
  /\ Len(AttemptLog) = 3
  /\ AttemptLog[1].out = Aborted
  /\ AttemptLog[3].out = Answer(Resp404)

(***************************************************************************)
(* C2: two failed attempts and a 2xx response on the third: the call       *)
(* resolves with that response after exactly 3 attempts and 2 backoff      *)
(* delays; in general a 2xx response is the last event of the call: the    *)
(* call is resolved with it and nothing is armed.                          *)
(***************************************************************************)
C2_StopsAtFirstOk ==
  /\ ( /\ Len(AttemptLog) >= 3
       /\ Failed(AttemptLog[1].out)
       /\ Failed(AttemptLog[2].out)
       /\ ~Failed(AttemptLog[3].out) )
     => /\ direct.f.pc = "resolved"
        /\ direct.f.resp = AttemptLog[3].out.resp
        /\ Len(AttemptLog) = 3
        /\ Len(DelayLog) = 2
  /\ \A p \in 1..Len(direct.log) :
       (IsAttempt(direct.log[p]) /\ ~Failed(direct.log[p].out))
       => /\ p = Len(direct.log)
          /\ direct.f.pc = "resolved"
          /\ direct.f.resp = direct.log[p].out.resp
          /\ timers = {}

\* fails twice (network error, then 500), then the order is found
C2_Witness ==
  /\ direct.f.pc = "resolved"
  /\ Len(AttemptLog) = 3
  /\ AttemptLog[1].out = NetError
  /\ AttemptLog[2].out = Answer(Resp500)
  /\ AttemptLog[3].out = Answer(RespFound(OrderPrinting))
  /\ Len(DelayLog) = 2

(***************************************************************************)
(* C3: with maxRetries = 3, when every attempt timed out, the call made    *)
(* exactly 3 attempts and rejected with the timeout error of               *)
(* fetchWithTimeout (not a transport error, not an HTTP error).            *)
(***************************************************************************)
C3_TimeoutClassified ==
  ( /\ Settled
    /\ direct.f.maxRetries = 3
    /\ \A k \in 1..Len(AttemptLog) : AttemptLog[k].out = Aborted )
  => /\ direct.f.pc = "rejected"
     /\ Len(AttemptLog) = 3
     /\ direct.f.error.name = "Error"
     /\ direct.f.error.message = <<"Request timeout - please try again">>

C3_Witness ==
  /\ direct.f.pc = "rejected"
  /\ direct.f.maxRetries = 3
  /\ Len(AttemptLog) = 3
  /\ \A k \in 1..3 : AttemptLog[k].out = Aborted

(***************************************************************************)
(* C4: every delay follows a failed attempt, the delay after failed        *)
(* attempt i (0-indexed) is 2^i seconds, every failed attempt but the last *)
(* allowed one is followed by its delay, and nothing follows the final     *)
(* failed attempt: no delay before the first attempt, none after the last. *)
(***************************************************************************)
C4_ExponentialBackoff ==
  /\ \A p \in 1..Len(direct.log) :
       IsDelay(direct.log[p])
       => /\ p > 1
          /\ IsAttempt(direct.log[p - 1])
          /\ Failed(direct.log[p - 1].out)
          /\ direct.log[p].ms = (2 ^ (AttemptsBefore(p) - 1)) * 1000
  /\ \A p \in 1..Len(direct.log) :
       (IsAttempt(direct.log[p]) /\ Failed(direct.log[p].out))
       => IF AttemptsBefore(p) + 1 < direct.f.maxRetries
            THEN p < Len(direct.log) /\ IsDelay(direct.log[p + 1])
            ELSE p = Len(direct.log) /\ direct.f.pc = "rejected"

\* four failed attempts: delays of 1 s, 2 s, 4 s between them, none after
C4_Witness ==
  /\ direct.f.pc = "rejected"
  /\ Len(AttemptLog) = 4
  /\ Len(DelayLog) = 3
  /\ DelayLog[3].ms = 4000
  /\ IsAttempt(direct.log[Len(direct.log)])

(***************************************************************************)
(* C5: an attempt races its fetch against one timer of timeoutMs.  While   *)
(* the fetch is awaited exactly that timer is armed; once the attempt has  *)
(* settled (response, network error or timeout) no timer of it is armed,   *)
(* so an armed timer always belongs to the attempt in flight; an attempt   *)
(* ended by its timer fails with the timeout error.                        *)
(***************************************************************************)
C5_TimerTiedToAttempt ==
  /\ \A t \in timers :
       t.owner = 0 =>
         /\ direct.f.pc = "attempt"
         /\ t.attempt = direct.f.attempts
         /\ t.attempt = Len(AttemptLog) + 1
         /\ t.ms = 10000
  /\ direct.f.pc = "attempt" => \E t \in timers : t.owner = 0
  /\ (direct.f.pc = "rejected" /\ Len(AttemptLog) > 0)
     => (LastAttempt.out = Aborted <=> direct.f.error.message = MsgTimeout)

\* the first attempt ended with a network error, the second is in flight and
\* only its own timer is armed
C5_Witness ==
  /\ direct.f.pc = "attempt"
  /\ Len(AttemptLog) = 1
  /\ AttemptLog[1].out = NetError
  /\ timers = {[owner |-> 0, attempt |-> 2, ms |-> 10000]}

(***************************************************************************)
(* C6: a non-2xx response does not make fetchWithRetry raise: once the     *)
(* attempts are used up and the last one was answered with a non-2xx       *)
(* response, the call resolves with that response for the caller to        *)
(* interpret.                                                              *)
(***************************************************************************)
C6_CallerReceivesResponse ==
  ( /\ Settled
    /\ direct.f.maxRetries >= 1
    /\ Len(AttemptLog) = direct.f.maxRetries
    /\ LastAttempt.out.kind = "response"
    /\ Failed(LastAttempt.out) )
  => /\ direct.f.pc = "resolved"
     /\ direct.f.resp = LastAttempt.out.resp

(***************************************************************************)
(* C7: when the lookup of a submission ends on an answer that says         *)
(* success=false or has a non-2xx status, and whose JSON body carries an   *)
(* error string, the view ends in Error with the timeline hidden and shows *)
(* exactly that string.                                                    *)
(***************************************************************************)
\* the answer r reports a failure and carries an error string
CarriesError(r) ==
  /\ r.body.json
  /\ (~r.body.success \/ r.status \notin 200..299)
  /\ r.body.error # <<>>

\* this step ends the lookup of slot c, and r is the answer it ended on
LookupEndsOn(c, r) ==
  /\ calls[c].pc # "none"
  /\ calls'[c].pc = "none"
  /\ \/ calls[c].pc = "json" /\ calls[c].resp = r
     \/ calls[c].pc = "retry" /\ NetSettles(c, Answer(r))
     \/ calls[c].pc = "plain" /\ PlainSettles(c, Answer(r))

\* the view is in Error with text as its message
InError(v, text) ==
  /\ ~v.statusHidden
  /\ v.message.kind = "error"
  /\ v.message.text = text
  /\ v.timelineDisplay = "none"

C7_ServerMessageShown ==
  [][ \A c \in Slots : \A r \in WorkerResponses \cup StaticHostResponses :
        (LookupEndsOn(c, r) /\ CarriesError(r)) => InError(view', r.body.error) ]_vars

(***************************************************************************)
(* C8: a not-found answer (HTTP 404 and/or success=false) is not retried:  *)
(* it is the only attempt of the call and no backoff delay occurs.         *)
(***************************************************************************)
\* the server reports that no order matches
ReportsNoMatch(outcome) ==
  /\ outcome.kind = "response"
  /\ outcome.resp.body.json
  /\ ~outcome.resp.body.success
  /\ outcome.resp.body.error = MsgNotFound

C8_NotFoundNotRetried ==
  (Len(AttemptLog) >= 1 /\ ReportsNoMatch(AttemptLog[1].out))
  => Len(direct.log) = 1

(***************************************************************************)
(* C8 as amended: a not-found answer with a 2xx status is not retried (it  *)
(* is the last event of the call, which resolves with it); a not-found     *)
(* answer with status 404 is retried like any failed attempt: a backoff    *)
(* delay follows unless it answered the last allowed attempt, and then the *)
(* call rejects.                                                           *)
(***************************************************************************)
C8_NotFoundRetriedUnless2xx ==
  \A p \in 1..Len(direct.log) :
    (IsAttempt(direct.log[p]) /\ ReportsNoMatch(direct.log[p].out))
    => IF direct.log[p].out.resp.status \in 200..299
         THEN /\ p = Len(direct.log)
              /\ direct.f.pc = "resolved"
              /\ direct.f.resp = direct.log[p].out.resp
         ELSE IF AttemptsBefore(p) + 1 < direct.f.maxRetries
           THEN /\ p < Len(direct.log)
                /\ IsDelay(direct.log[p + 1])
           ELSE /\ p = Len(direct.log)
                /\ direct.f.pc = "rejected"

\* a call that got 404 three times (with two delays) and one that got the
\* 2xx not-found answer at once are both reachable; this is the first
C8_Witness ==
  /\ direct.f.pc = "rejected"
  /\ direct.f.maxRetries = 3
  /\ Len(AttemptLog) = 3
  /\ \A k \in 1..3 : AttemptLog[k].out = Answer(Resp404)
  /\ Len(DelayLog) = 2

(***************************************************************************)
(* C9: with no endpoint configured (apiEndpoint empty) a submission makes  *)
(* no network attempt: no lookup is ever in flight.                        *)
(***************************************************************************)
C9_NoRequestWithoutEndpoint ==
  page.apiEndpoint = "" => \A c \in Slots : calls[c].pc = "none"

(***************************************************************************)
(* C10: a lookup is in flight (its request was sent) only for a trimmed    *)
(* identifier of the shape AA-dddd-dddd, with a non-empty email when the   *)
(* email field is visible and an email of the shape local@domain.tld when  *)
(* it is non-empty.                                                        *)
(***************************************************************************)
\* two uppercase letters, hyphen, four digits, hyphen, four digits
IdentifierShape(s) ==
  /\ Len(s) = 12
  /\ \A k \in 1..Len(s) :
       s[k] \in (CASE k \in {1, 2} -> Upper
                   [] k \in {3, 8} -> {"-"}
                   [] OTHER        -> Digit)

\* local@domain.tld: the tld is what follows the last dot
EmailShape(s) ==
  LET ats == {k \in 1..Len(s) : s[k] = "@"}
      dots == {k \in 1..Len(s) : s[k] = "."}
  IN /\ Cardinality(ats) = 1
     /\ dots # {}
     /\ LET at == CHOOSE k \in ats : TRUE
            dot == CHOOSE k \in dots : \A j \in dots : j <= k
        IN /\ at > 1
           /\ dot > at + 1
           /\ Len(s) >= dot + 2
           /\ \A k \in 1..(at - 1) :
                s[k] \in Upper \cup Lower \cup Digit \cup {".", "_", "%", "+", "-"}
           /\ \A k \in (at + 1)..(dot - 1) :
                s[k] \in Upper \cup Lower \cup Digit \cup {".", "-"}
           /\ \A k \in (dot + 1)..Len(s) : s[k] \in Upper \cup Lower

C10_RequestOnlyAfterValidation ==
  \A c \in Slots :
    (calls[c].pc # "none" \/ \E t \in timers : t.owner = c)
    => /\ calls[c].orderId # <<>>
       /\ IdentifierShape(calls[c].orderId)
       /\ calls[c].url.orderId = calls[c].orderId
       /\ (page.emailField = "visible" => calls[c].email # <<>>)
       /\ (calls[c].email # <<>> => EmailShape(calls[c].email))

\* a request in flight for a valid identifier, the hidden email field empty
C10_Witness ==
  \E c \in Slots :
    /\ calls[c].pc = "retry"
    /\ calls[c].f.attempts >= 1
    /\ page.emailField = "hidden"
    /\ calls[c].email = <<>>
    /\ calls[c].orderId = <<"A","A","-","2","0","2","4","-","0","0","4","7">>

(***************************************************************************)
(* C11: the identifier check accepts exactly the strings that, once the    *)
(* spaces around them are dropped, are two uppercase letters, a hyphen,    *)
(* four digits, a hyphen and four digits: "AA-2024-0047" passes,           *)
(* "aa-2024-0047", "AA-24-0047" and "AA-2024-047" are rejected.            *)
(***************************************************************************)
\* s is spaces, then a string of the identifier shape, then spaces
ShapeBetweenSpaces(s) ==
  \E from \in 1..Len(s) : \E to \in from..Len(s) :
    /\ \A k \in 1..(from - 1) : s[k] = " "
    /\ \A k \in (to + 1)..Len(s) : s[k] = " "
    /\ IdentifierShape(SubSeq(s, from, to))

\* the last submission was stopped by a check of the identifier
IdRejected ==
  probe.error.message \in {"Please enter an order number.",
                           "Invalid order ID format. Expected: AA-2024-0047"}

C11_IdentifierAcceptedIffShape ==
  probe.op = "validate" =>
    /\ IdRejected <=> ~ShapeBetweenSpaces(probe.orderId)
    /\ IdRejected => probe.error.field = "order-id"
    /\ probe.orderId = <<"A","A","-","2","0","2","4","-","0","0","4","7">> => ~IdRejected
    /\ probe.orderId \in { <<"a","a","-","2","0","2","4","-","0","0","4","7">>,
                            <<"A","A","-","2","4","-","0","0","4","7">>,
                            <<"A","A","-","2","0","2","4","-","0","4","7">> } => IdRejected

\* an identifier with one digit too many was submitted and rejected
C11_Witness ==
  /\ probe.op = "validate"
  /\ probe.orderId = <<"A","A","-","2","0","2","4","-","0","0","4","7","0">>
  /\ IdRejected

(***************************************************************************)
(* C12: when a validated submission enters Loading, the display state of   *)
(* earlier lookups is cleared first: during Loading, and in an Error state *)
(* that follows it, the view shows no status title, no product, order date *)
(* or tracking number, no detail panel and no timeline mark of an earlier  *)
(* result.                                                                 *)
(***************************************************************************)
Loading(v) == v.message = TextNode(<<"Looking up your order...">>)

\* the view shows nothing that a displayed result put there
NoResultData(v) ==
  /\ v.title = ""
  /\ v.marks = NoMarks
  /\ \/ v.detailsHidden
     \/ /\ v.product = ""
        /\ v.date = ""
        /\ (v.trackingHidden \/ v.tracking = "")

C12_LoadingClearsPriorResult ==
  (Loading(view) \/ view.message.kind = "error") => NoResultData(view)

(***************************************************************************)
(* C13: after a Found result is displayed, each optional detail widget     *)
(* (product, order date, tracking number) shows the value that result      *)
(* carries, and shows no data when the result lacks the field, whatever    *)
(* earlier lookups displayed.                                              *)
(***************************************************************************)
\* the detail widgets of v show the optional fields of order o and no others
DetailsShow(v, o) ==
  /\ ~v.detailsHidden
  /\ IF o.product # "" THEN v.product = o.product ELSE v.product = ""
  /\ IF o.createdDate # ""
       THEN v.date \in {o.createdDate, formatDate(o.createdDate)}
       ELSE v.date = ""
  /\ IF o.trackingNumber # ""
       THEN v.tracking = o.trackingNumber /\ ~v.trackingHidden
       ELSE v.trackingHidden \/ v.tracking = ""

C13_DetailsOfThisResult ==
  [][ \A c \in Slots : \A o \in Orders :
        LookupEndsOn(c, RespFound(o)) => DetailsShow(view', o) ]_vars

(***************************************************************************)
(* C14: after a Found result is displayed whose status is the label at     *)
(* position k of the 8-stage sequence, whatever the timeline showed        *)
(* before, exactly the stages below k are marked completed, exactly stage  *)
(* k is marked active and the stages above k carry no mark; "Printing"     *)
(* gives stage 2 active, stages 0-1 completed, stages 3-7 unmarked and the *)
(* message "Your print is being created".                                  *)
(***************************************************************************)
\* the canonical labels in the order of their stages
CanonicalLabels ==
  <<"Order Received", "In Queue", "Printing", "Post-Processing",
    "Quality Control", "Packaging", "Shipped", "Delivered">>

\* the stages of v are marked as for a result at stage k
MarkedAt(v, k) ==
  \A i \in 0..7 :
    v.marks[i] = (IF i < k THEN {"completed"} ELSE IF i = k THEN {"active"} ELSE {})

C14_TimelineMarksStage ==
  probe.op = "displayOrderStatus" =>
    /\ \A k \in 0..7 : probe.order.status = CanonicalLabels[k + 1] => MarkedAt(view, k)
    /\ probe.order.status = "Printing" =>
          /\ view.marks[2] = {"active"}
          /\ view.marks[0] = {"completed"} /\ view.marks[1] = {"completed"}
          /\ \A i \in 3..7 : view.marks[i] = {}
          /\ view.message = TextNode(<<"Your print is being created">>)

\* the result "Printing" is displayed (over whatever was displayed before)
C14_Witness ==
  /\ probe.op = "displayOrderStatus"
  /\ probe.order.status = "Printing"
  /\ view.title = "Printing"
  /\ view.marks[2] = {"active"}
  /\ view.product = "Test Product"
  /\ view.tracking = "1Z999"

(***************************************************************************)
(* C15: for a status that is not one of the 8 canonical labels the         *)
(* registry returns the default descriptor with no stage index, and        *)
(* displaying such a Found result marks no timeline stage active or        *)
(* completed while the status panel is still displayed.                    *)
(***************************************************************************)
CanonicalLabel(status) == \E k \in 1..8 : CanonicalLabels[k] = status

InvalidSubmitted == formError' # NoFormError /\ formError' # formError

\* this step ends the lookup of slot c without displaying a result
LookupFailed(c) ==
  /\ calls[c].pc # "none"
  /\ calls'[c].pc = "none"
  /\ ~(/\ calls[c].pc = "json"
       /\ Ok(calls[c].resp)
       /\ calls[c].resp.body.json
       /\ calls[c].resp.body.success
       /\ calls[c].resp.body.order.present)

\* the messages of the failures a lookup standing at slot c can end with
FailureTexts(c) ==
  CASE calls[c].pc = "json" ->
         LET body == calls[c].resp.body
         IN IF ~body.json THEN {MsgSyntax}
            ELSE IF ~Ok(calls[c].resp) \/ ~body.success
              THEN {IF body.error # <<>> THEN body.error
                                         ELSE <<"Failed to fetch order status">>}
            ELSE {MsgNoOrder}
    [] calls[c].pc = "retry" ->
         {<<"Request timeout - please try again">>, <<"Failed to fetch">>,
          <<"HTTP ", "404", ": ", "Not Found">>,
          <<"HTTP ", "500", ": ", "Internal Server Error">>}
    [] OTHER -> {<<"Failed to fetch">>}

EntityOf(ch) ==
  CASE ch = "<" -> "&lt;"
    [] ch = ">" -> "&gt;"
    [] OTHER    -> "&amp;"

C17_MessageEscaped ==
  probe.op = "displayError" =>
    LET inserted == IF page.utils THEN escapeHTML(probe.message)
                                  ELSE escapeFallback(probe.message)
    IN /\ Len(inserted) = Len(probe.message)
       /\ \A k \in 1..Len(probe.message) :
            IF probe.message[k] \in {"<", ">", "&"}
              THEN inserted[k] = EntityOf(probe.message[k])
              ELSE inserted[k] \notin {"<", ">", "&"}
       /\ view.message.kind = "error"
       /\ ~view.message.markup
       /\ view.message.text = probe.message

\* a message with a tag and an ampersand displayed without utils.js
C17_Witness ==
  /\ probe.op = "displayError"
  /\ probe.message = <<"<", "&", ">">>
  /\ ~page.utils
  /\ view.message.text = <<"<", "&", ">">>

NothingInFlight(cs, ts, c) ==
  /\ cs[c] = NoCall
  /\ \A t \in ts : t.owner # c

C20_RenderIdempotent ==
  [][ ( /\ probe.op = "displayOrderStatus"
        /\ probe'.op = "displayOrderStatus"
        /\ probe'.order = probe.order )
      => /\ view' = view
         /\ Len(view'.emoji) = 1 ]_vars

\* a result at the step "printing" is displayed in lottie mode: the one
\* child of the animation element is the player
C20_Witness ==
  /\ probe.op = "displayOrderStatus"
  /\ probe.order.status = "Printing"
  /\ page.animationMode = "lottie"
  /\ view.emoji = <<Player(UrlPrinting)>>
  /\ view.marks[2] = {"active"}

(***************************************************************************)
(* The page opened with a link: routing, the deep-link parameters and the  *)
(* automatic submission.  The user does not type into the form and does    *)
(* not submit it: the only submission is the automatic one.                *)
(***************************************************************************)
ValidEmail == <<"a","@","b",".","c","o">>

\* the link of the documentation: additiveartisan.com/#track?order=AA-2024-0047
DocumentedLink == <<Hash, Name("track"), Quest, Param("order", ValidId)>>

\* the links the page is opened with
LinksOpened ==
  { <<>>,
    TrackLink,
    <<Quest, Param("order", ValidId), Hash, Name("track")>>,
    <<Quest, Param("order", ValidId), Amp, Param("email", ValidEmail), Hash, Name("track")>>,
    <<Quest, Param("email", ValidEmail), Hash, Name("track")>>,
    <<Quest, Param("order", ValidId)>>,
    <<Quest, Param("order", ValidId), Hash, Name("shop")>>,
    <<Quest, Param("order", <<>>), Amp, Param("email", ValidEmail), Hash, Name("track")>>,
    <<Quest, Param("order", <<"a","a","-","1">>), Hash, Name("track")>>,
    DocumentedLink,
    <<Hash, Name("track"), Quest, Param("order", ValidId), Amp, Param("email", ValidEmail)>> }

\* the fragments the user moves to afterwards (address bar, back and forward)
Fragments ==
  { <<>>, <<Name("track")>>, <<Name("shop")>>, <<Name("cart")>>,
    <<Name("track"), Quest, Param("order", ValidId)>> }

InitRoute ==
  /\ page \in Pages
  /\ \E link \in LinksOpened : nav = setupRouting(link, page.emailField # "absent")
  /\ shop = NoShop
  /\ deb = NoDeb
  /\ calls = [c \in Slots |-> NoCall]
  /\ timers = {}
  /\ view = InitialView
  /\ formError = NoFormError
  /\ unhandled = {}
  /\ direct = NoDirect
  /\ probe = NoProbe
  /\ theme = NoTheme
  /\ sw = NoSw

\* the timer of checkOrderParam fires: the form gets a submit event with the
\* fields as checkOrderParam left them
AutoSubmitFires ==
  /\ nav.autoSubmit
  /\ handleOrderSearch(nav.orderId, nav.email)
  /\ nav' = [nav EXCEPT !.autoSubmit = FALSE]

\* handleNavClick(e) on the link of a section
HandleNavClick(sectionId) ==
  /\ nav' = navigateToSection(nav, sectionId)
  /\ UNCHANGED <<page, theme, sw, shop, deb, calls, timers, view, formError, unhandled, direct, probe>>

\* the fragment of the address changes: the hashchange listener
HashChange(fragment) ==
  /\ nav' = handleHashChange(
              [nav EXCEPT !.hash = IF fragment = <<>> THEN <<>> ELSE <<Hash>> \o fragment])
  /\ UNCHANGED <<page, theme, sw, shop, deb, calls, timers, view, formError, unhandled, direct, probe>>

NextRoute ==
  \/ AutoSubmitFires
  \/ \E sectionId \in Sections : HandleNavClick(sectionId)
  \/ \E fragment \in Fragments : HashChange(fragment)
  \/ \E c \in Slots : \E outcome \in Outcomes(WorkerResponses \cup StaticHostResponses) :
       NetSettles(c, outcome)
  \/ \E t \in timers : TimerFires(t)
  \/ \E c \in Slots : BackoffFires(c)
  \/ \E c \in Slots : \E outcome \in Outcomes(WorkerResponses \cup StaticHostResponses) :
       PlainSettles(c, outcome)
  \/ \E c \in Slots : JsonSettles(c)

SpecRoute == InitRoute /\ [][NextRoute]_vars

(***************************************************************************)
(* C21  deep-link parameters                                               *)
(***************************************************************************)
\* the page was opened on the track section: the fragment of the link is
\* "track" and nothing else
OpenedOnTrack == LocationHash(nav.link) = <<Hash, Name("track")>>

\* the parameters of the query of the address
OrderParam == SearchParam(nav.search, "order")
EmailParam == SearchParam(nav.search, "email")

\* checkOrderParam armed the timer of the automatic submission
Scheduled == nav.delay # 0

C22_DocumentedLinkTracks ==
  nav.link = DocumentedLink =>
    /\ Scheduled
    /\ nav.orderId = ValidId
    /\ (nav.autoSubmit => nav.section = "track")

(***************************************************************************)
(* C23, C24  overlapping submissions                                       *)
(***************************************************************************)
InFlight(cs) == {c \in Slots : cs[c].pc # "none"}

\* a lookup starts in slot c
LookupStarts(c) == calls[c].pc = "none" /\ calls'[c].pc # "none"

\* C23 as stated: at most one lookup is in flight at any time.
C23_OneLookupInFlight == Cardinality(InFlight(calls)) <= 1

\* C23, amended: nothing limits the lookups in flight.  While lookups are in
\* flight (awaiting an attempt, a backoff delay or the body) a submission
\* that passes validation can start another one; the lookup that starts
\* begins its first request at once and leaves every lookup in flight, and
\* every armed timer, as it was.
C23_SubmissionsOverlap ==
  /\ [](page.tracker /\ InFlight(calls) # {} /\ FreeSlots # {}
          => ENABLED (HandleOrderSearch(ValidId, ValidEmail) /\ LookupStarts(FreeSlot)))
  /\ [][\A c \in Slots :
          LookupStarts(c) =>
            /\ calls'[c].older = InFlight(calls)
            /\ calls'[c].pc \in {"retry", "plain"}
            /\ calls'[c].pc = "retry" => calls'[c].f.pc = "attempt"
            /\ \A d \in Slots \ {c} : calls'[d] = calls[d]
            /\ timers \subseteq timers']_vars

\* a second lookup is in flight while the first is in the backoff delay
\* before its third attempt
C23_Witness ==
  /\ calls[1].pc = "retry" /\ calls[1].f.pc = "wait" /\ calls[1].f.attempts = 2
  /\ calls[2].pc = "retry" /\ calls[2].f.pc = "attempt"
  /\ calls[2].older = {1}

\* this step ends the lookup of slot c
LookupEnds(c) == calls[c].pc # "none" /\ calls'[c].pc = "none"

\* lookup d goes on over this step as if nothing had happened
GoesOn(d) ==
  /\ calls'[d].pc = calls[d].pc
  /\ calls'[d].url = calls[d].url
  /\ calls'[d].f = calls[d].f
  /\ calls'[d].resp = calls[d].resp

\* C24: with lookups overlapping, the end of one cancels no other (each goes
\* on with its request, its retries and its timers) and no outcome is
\* discarded: whenever a lookup ends, its outcome is what the view shows next
\* (the result, or the Error of its failure), whether or not lookups
\* submitted after it have resolved before it and whether or not others are
\* still in flight.  So the lookup that resolves last determines the display,
\* and a lookup overtaken by a later submission overwrites the later result
\* with its own.
C24_LastResolvedWins ==
  [][ \A c \in Slots :
        LookupEnds(c) =>
          /\ \A d \in Slots \ {c} : GoesOn(d)
          /\ {t \in timers : t.owner # c} \subseteq timers'
          /\ IF LookupFailed(c)
               THEN \E text \in FailureTexts(c) : InError(view', text)
               ELSE LET o == calls[c].resp.body.order
                    IN /\ ~view'.statusHidden
                       /\ view'.title = o.status
                       /\ view'.message = TextNode(<<getStatusConfig(o.status).message>>) ]_vars

\* submission A (slot 1, awaiting the body of the answer for the order in
\* "Printing") has been overtaken: B, submitted while A was in flight, has
\* resolved and the view shows B's result ("On Hold").  No lookup is left but
\* A, whose outcome the view shows next.
C24_Witness ==
  /\ calls[1].pc = "json" /\ calls[1].overtaken
  /\ calls[1].resp = RespFound(OrderPrinting)
  /\ calls[2].pc = "none"
  /\ view.title = "On Hold" /\ ~view.statusHidden

(***************************************************************************)
(* C25  navigation away from the track section                             *)
(***************************************************************************)
\* the status panel and the detail panel are not displayed
Idle(v) == v.statusHidden /\ v.detailsHidden

\* C25: a step that takes the user from the track section to another
\* section resets the tracking view: the status panel and the detail panel
\* are hidden (the view is Idle), so they are when the user comes back.
C25_ResetOnNavigation ==
  [][ nav.section = "track" /\ nav'.section # "track" => Idle(view') ]_vars

(***************************************************************************)
(* C26  the registry and the stages                                        *)
(***************************************************************************)
\* C26: for each of the 8 canonical labels the index of the step of its
\* descriptor is the position of the label in the sequence Order Received
\* (0), In Queue, Printing, Post-Processing, Quality Control, Packaging,
\* Shipped, Delivered (7); labels and indices 0..7 correspond one to one;
\* every call answers the same.
C26_LabelsMatchStages ==
  probe.op = "getStatus" =>
    /\ \A k \in 0..7 : probe.status = CanonicalLabels[k + 1] => probe.index = k
    /\ CanonicalLabel(probe.status) =>
         /\ probe.index \in 0..7
         /\ \A other \in DOMAIN STATUS_CONFIG \ {probe.status} :
              getStatusIndex(STATUS_CONFIG[other].step) # probe.index
    /\ probe.config = getStatusConfig(probe.status)
    /\ DOMAIN STATUS_CONFIG = {CanonicalLabels[k] : k \in 1..8}

\* the descriptor of "Delivered" was asked for, over a displayed result
C26_Witness ==
  /\ probe.op = "getStatus"
  /\ probe.status = "Delivered"
  /\ probe.config.step = "delivered"
  /\ probe.index = 7
  /\ view.title # ""

(***************************************************************************)
(* The product grid: initProducts, then clicks on the filter buttons       *)
(***************************************************************************)
\* products in data/products.json
MaxProducts == 3

\* the files data/products.json explored: up to MaxProducts products, the
\* k-th with id k, each of one of two categories, active or not
Catalogues ==
  UNION { { [k \in 1..n |-> Product(k, kind[k][1], kind[k][2])] :
              kind \in [1..n -> {"dice", "mtg"} \X BOOLEAN] } : n \in 0..MaxProducts }

InitShop ==
  /\ page = ShippedPage
  /\ nav = setupRouting(<<>>, TRUE)
  /\ \E catalogue \in Catalogues : shop = [NoShop EXCEPT !.catalogue = catalogue]
  /\ deb = NoDeb
  /\ calls = [c \in Slots |-> NoCall]
  /\ timers = {}
  /\ view = InitialView
  /\ formError = NoFormError
  /\ unhandled = {}
  /\ direct = NoDirect
  /\ probe = NoProbe
  /\ theme = NoTheme
  /\ sw = NoSw

\* initProducts() up to `await loadProducts()`: utils.showLoading("product-grid")
InitProducts ==
  /\ shop.pc = "start"
  /\ shop' = [shop EXCEPT !.pc = "loading", !.grid = GridLoading]
  /\ UNCHANGED <<page, theme, sw, nav, deb, calls, timers, view, formError, unhandled, direct, probe>>

\* loadProducts() returns and initProducts() runs to its end
LoadProductsReturns(ok) ==
  /\ shop.pc = "loading"
  /\ shop' = initProductsLoaded(shop, ok)
  /\ UNCHANGED <<page, theme, sw, nav, deb, calls, timers, view, formError, unhandled, direct, probe>>

\* a click on one of the buttons generateFilters made
FilterClick(filter) ==
  /\ shop.pc = "ready"
  /\ \E k \in DOMAIN shop.filters : shop.filters[k] = filter
  /\ shop' = handleFilterClick(shop, filter)
  /\ UNCHANGED <<page, theme, sw, nav, deb, calls, timers, view, formError, unhandled, direct, probe>>

NextShop ==
  \/ InitProducts
  \/ \E ok \in BOOLEAN : LoadProductsReturns(ok)
  \/ \E filter \in {"all", "dice", "mtg"} : FilterClick(filter)

SpecShop == InitShop /\ [][NextShop]_vars

(***************************************************************************)
(* C27  inactive products                                                  *)
(***************************************************************************)
\* the product of the catalogue that card stands for is active
OfActiveProduct(card) ==
  \E k \in DOMAIN shop.catalogue :
    shop.catalogue[k].id = card.id /\ shop.catalogue[k].active

\* C27: after initProducts and after any sequence of filter clicks, every
\* product card in the grid belongs to a product whose `active` flag is true.
C27_InactiveNeverRendered ==
  \A k \in DOMAIN shop.grid.cards : OfActiveProduct(shop.grid.cards[k])

(***************************************************************************)
(* A function made by utils.debounce, called over a clock.  A timer fires  *)
(* at its due time or later, never before; the clock goes on and an armed  *)
(* timer fires in the end.                                                 *)
(***************************************************************************)
\* the largest wait, the last instant of the clock, the number of calls
MaxWait == 2
MaxTime == 5
MaxCalls == 3

\* the arguments of the calls
DebounceArgs == {"a", "b"}

InitDebounce ==
  /\ page = ShippedPage
  /\ nav = setupRouting(<<>>, TRUE)
  /\ shop = NoShop
  /\ \E wait \in 1..MaxWait : deb = [NoDeb EXCEPT !.wait = wait]
  /\ calls = [c \in Slots |-> NoCall]
  /\ timers = {}
  /\ view = InitialView
  /\ formError = NoFormError
  /\ unhandled = {}
  /\ direct = NoDirect
  /\ probe = NoProbe
  /\ theme = NoTheme
  /\ sw = NoSw

\* the debounced function is called with argument a
DebouncedCall(a) ==
  /\ deb.calls < MaxCalls
  /\ deb.now + deb.wait <= MaxTime
  /\ deb' = executedFunction(deb, a)
  /\ UNCHANGED <<page, theme, sw, nav, shop, calls, timers, view, formError, unhandled, direct, probe>>

\* the clock advances
Tick ==
  /\ deb.now < MaxTime
  /\ deb' = [deb EXCEPT !.now = @ + 1]
  /\ UNCHANGED <<page, theme, sw, nav, shop, calls, timers, view, formError, unhandled, direct, probe>>

\* the timer of `timeout` fires: later()
TimeoutFires ==
  /\ deb.armed
  /\ deb.now >= deb.due
  /\ deb' = later(deb)
  /\ UNCHANGED <<page, theme, sw, nav, shop, calls, timers, view, formError, unhandled, direct, probe>>

NextDebounce ==
  \/ \E a \in DebounceArgs : DebouncedCall(a)
  \/ Tick
  \/ TimeoutFires

SpecDebounce ==
  InitDebounce /\ [][NextDebounce]_vars /\ WF_vars(Tick) /\ WF_vars(TimeoutFires)

(***************************************************************************)
(* C28  debounce                                                           *)
(***************************************************************************)
\* this step is a call of the debounced function
Called == deb'.calls = deb.calls + 1

\* this step invokes the wrapped function
Invoked == deb'.log # deb.log

ShowsGlyph(v, name) == v.emoji = <<Glyph(name)>>

\* the one child of #status-emoji is a player
ShowsPlayer(v) == Len(v.emoji) = 1 /\ v.emoji[1].kind = "player"

\* C29: after a result is displayed whose status is not one of the 8
\* canonical labels (nor the name of a property objects inherit, for which
\* the registry returns no descriptor at all), the animation is the neutral
\* default glyph (the cat of the default descriptor), in emoji mode and in
\* lottie mode alike; it is never the player of the animation of a stage.
C29_UnknownOwnShowsNeutralGlyph ==
  /\ probe.op = "displayOrderStatus"
  /\ ~CanonicalLabel(probe.order.status)
  /\ probe.order.status \notin ObjectPrototypeKeys
  => ShowsGlyph(view, "cat")

\* a resource is configured for the step, and it is an http or https URL
ValidResourceFor(step) ==
  /\ step \in DOMAIN page.lottieUrls
  /\ page.lottieUrls[step].parses
  /\ page.lottieUrls[step].protocol \in {"http:", "https:"}

\* C30: after a result is displayed, the animation is an embedded player
\* exactly when the mode is lottie, a resource is configured for the step of
\* the descriptor, its URL is a valid http or https URL and the validator
\* (utils.js) is loaded; the player then plays that resource.  In every other
\* case (emoji mode, no resource for the step, a URL that does not parse or
\* has another protocol, utils.js not loaded) the glyph of the descriptor is
\* shown.
C30_PlayerOnlyForValidResource ==
  probe.op = "displayOrderStatus" =>
    LET statusConfig == getStatusConfig(probe.order.status)
        rich == /\ page.animationMode = "lottie"
                /\ page.utils
                /\ ValidResourceFor(statusConfig.step)
    IN /\ ShowsPlayer(view) <=> rich
       /\ rich => view.emoji = <<Player(page.lottieUrls[statusConfig.step])>>
       /\ ~rich => ShowsGlyph(view, statusConfig.emoji)

\* lottie mode, on the page whose resources are a valid URL for "printing",
\* a javascript: URL for "received" and an unparsable one for "queue": the
\* order in "Printing" is displayed with the player of its resource
C30_Witness ==
  /\ page.animationMode = "lottie" /\ page.utils
  /\ page.lottieUrls = SomeLottieUrls
  /\ probe.op = "displayOrderStatus" /\ probe.order.status = "Printing"
  /\ view.emoji = <<Player(UrlPrinting)>>
  /\ view.product = "Test Product"

(***************************************************************************)
(* The search form with its fields as state: the user types an identifier  *)
(* and an email (nav.orderId, nav.email hold the fields) and submits, one  *)
(* lookup at a time                                                        *)
(***************************************************************************)
MaxInFlightSerial == 1

\* the user fills the fields with idRaw, emailRaw and submits the form
TypeAndSubmit(idRaw, emailRaw) ==
  /\ Cardinality(InFlight(calls)) < MaxInFlightSerial
       \/ ValidationError(Trim(idRaw), EmailValue(emailRaw)) # NoFormError
  /\ handleOrderSearch(idRaw, emailRaw)
  /\ nav' = [nav EXCEPT !.orderId = idRaw, !.email = emailRaw]

NextSubmit ==
  \/ \E idRaw \in OrderIdInputs, emailRaw \in EmailInputs : TypeAndSubmit(idRaw, emailRaw)
  \/ \E c \in Slots : \E outcome \in Outcomes(WorkerResponses \cup StaticHostResponses) :
       NetSettles(c, outcome)
  \/ \E t \in timers : TimerFires(t)
  \/ \E c \in Slots : BackoffFires(c)
  \/ \E c \in Slots : \E outcome \in Outcomes(WorkerResponses \cup StaticHostResponses) :
       PlainSettles(c, outcome)
  \/ \E c \in Slots : JsonSettles(c)

SpecSubmit == Init /\ [][NextSubmit]_vars

(***************************************************************************)
(* C31: a submission that fails local validation leaves the tracker view   *)
(* as it was (status panel, message, glyph, timeline marks and visibility, *)
(* detail panel), sends no request and starts no timer, and reports one    *)
(* inline field error: that of the first check that fails, in the order    *)
(* missing identifier, bad identifier format, missing email (when the      *)
(* field is visible), bad email, tracker unavailable.                      *)
(***************************************************************************)
\* s holds nothing but spaces
Blank(s) == \A k \in 1..Len(s) : s[k] = " "

\* the checks in the order of the list; the first that the fields fail,
\* "none" when they pass all of them
FirstFailingCheck(idRaw, emailRaw) ==
  LET hasEmailField == page.emailField # "absent"
      email == IF hasEmailField THEN Trim(emailRaw) ELSE <<>>
  IN CASE Blank(idRaw) -> "missing identifier"
       [] ~IdentifierShape(Trim(idRaw)) -> "bad identifier format"
       [] page.emailField = "visible" /\ email = <<>> -> "missing email"
       [] email # <<>> /\ ~EmailShape(email) -> "bad email"
       [] ~page.tracker -> "tracker unavailable"
       [] OTHER -> "none"

\* the inline error of each check: the field it is attached to, its text
ErrorOfCheck(check) ==
  CASE check = "missing identifier" ->
         FormError("order-id", "Please enter an order number.")
    [] check = "bad identifier format" ->
         FormError("order-id", "Invalid order ID format. Expected: AA-2024-0047")
    [] check = "missing email" ->
         FormError("order-email", "Please enter your email address.")
    [] check = "bad email" ->
         FormError("order-email", "Please enter a valid email address.")
    [] check = "tracker unavailable" ->
         FormError("order-id",
                   "Order tracking is currently unavailable. Please try again later.")

C31_InvalidSubmissionFrame ==
  [][ ( /\ FirstFailingCheck(nav'.orderId, nav'.email) # "none"
        /\ TypeAndSubmit(nav'.orderId, nav'.email) )
      => /\ view' = view
         /\ calls' = calls
         /\ timers' = timers
         /\ formError' = ErrorOfCheck(FirstFailingCheck(nav'.orderId, nav'.email)) ]_vars

\* a result is displayed with its timeline and detail panel, and the form
\* shows the error of a submission made since with a malformed identifier
C31_Witness ==
  /\ ~view.statusHidden
  /\ view.timelineDisplay # "none"
  /\ ~view.detailsHidden
  /\ view.title = "Printing"
  /\ nav.orderId = <<"A","A","-","2","4","-","0","0","4","7">>
  /\ formError = ErrorOfCheck("bad identifier format")
  /\ \A c \in Slots : calls[c].pc = "none"

(***************************************************************************)
(* C32  the timeline of a displayed result                                 *)
(***************************************************************************)
\* the view displays a Found result: the panel is shown and its message is
\* the text displayOrderStatus wrote (not the loading text, not an error)
Displayed(v) ==
  /\ ~v.statusHidden
  /\ v.message.kind = "text"
  /\ ~Loading(v)

\* C32: in every reachable state, overlapping submissions included, the
\* timeline is visible whenever the view displays a Found result, and the
\* timeline is hidden only while the view shows an error.
C32_DisplayedShowsTimeline ==
  /\ Displayed(view) => view.timelineDisplay # "none"
  /\ view.timelineDisplay = "none" => view.message.kind = "error"

(***************************************************************************)
(* A caller of the four functions that write the track section, the        *)
(* exported updateTimeline included, in any order                          *)
(***************************************************************************)
\* the steps updateTimeline is called with: those of the timeline, the empty
\* string and a name the timeline does not have
TimelineStepInputs ==
  {getStatusSteps[k] : k \in 1..Len(getStatusSteps)} \cup {"", "on-hold"}

CallUpdateTimeline(currentStep) ==
  /\ view' = updateTimeline(view, currentStep)
  /\ probe' = [op |-> "updateTimeline", step |-> currentStep]
  /\ UNCHANGED <<page, theme, sw, nav, shop, deb, calls, timers, formError, unhandled, direct>>

NextTimeline ==
  \/ CallShowLoading
  \/ \E order \in RenderOrders : CallDisplayOrderStatus(order)
  \/ \E currentStep \in TimelineStepInputs : CallUpdateTimeline(currentStep)
  \/ \E message \in RenderMessages : CallDisplayError(message)

SpecTimeline == InitView /\ [][NextTimeline]_vars

(***************************************************************************)
(* C33  well-formed timeline marks                                         *)
(***************************************************************************)
\* the stages marked with class
StagesMarked(v, class) == {k \in TimelineSteps : class \in v.marks[k]}

\* C33: in every reachable state of the tracker view, after any sequence of
\* showLoading, displayOrderStatus, updateTimeline and displayError, the
\* timeline marks are well-formed: at most one stage is active, no stage is
\* both active and completed, and the completed stages are exactly the stages
\* before the active one (none is completed when no stage is active).
C33_MarksWellFormed ==
  LET active == StagesMarked(view, "active")
      completed == StagesMarked(view, "completed")
  IN /\ Cardinality(active) <= 1
     /\ active \cap completed = {}
     /\ \A a \in active : completed = {k \in TimelineSteps : k < a}
     /\ active = {} => completed = {}

\* updateTimeline("quality") was called on a view in Error that displayed
\* the order in "Printing" before: stage 4 is active, stages 0..3 completed,
\* the title is still that of the result
C33_Witness ==
  /\ probe.op = "updateTimeline" /\ probe.step = "quality"
  /\ view.title = "Printing"
  /\ view.message.kind = "error"
  /\ StagesMarked(view, "active") = {4}
  /\ StagesMarked(view, "completed") = 0..3

(***************************************************************************)
(* C34: for every maxRetries >= 1, fetchWithRetry settles in one of two    *)
(* ways only: it resolves with a response whose ok flag is true (the       *)
(* answer of its last attempt), or it rejects with an error.  It never     *)
(* resolves with a non-2xx response or with no response, so a caller's     *)
(* `!response.ok` test of the value it resolved with is never true.        *)
(***************************************************************************)
C34_ResolvesOkOrRejects ==
  (Settled /\ direct.f.maxRetries >= 1)
  => \/ /\ direct.f.pc = "resolved"
        /\ direct.f.resp # NoResp
        /\ Ok(direct.f.resp)
        /\ LastAttempt.out = Answer(direct.f.resp)
        /\ direct.f.error = NoError
     \/ /\ direct.f.pc = "rejected"
        /\ direct.f.error # NoError
        /\ direct.f.resp = NoResp

\* fetchWithRetry(url, {}, 2): the first attempt was answered 500, the second
\* 200 with the order; the call resolved with the second answer
C34_Witness ==
  /\ direct.f.pc = "resolved"
  /\ direct.f.maxRetries = 2
  /\ Len(AttemptLog) = 2
  /\ AttemptLog[1].out = Answer(Resp500)
  /\ direct.f.resp = RespFound(OrderPrinting)

(***************************************************************************)
(* The submit handler over a network that makes progress: the fetch of     *)
(* every attempt settles or is cut off by its timer, every backoff timer   *)
(* fires.  Nothing is assumed about response.json(): no timer covers the   *)
(* reading of a body whose headers have arrived.                           *)
(***************************************************************************)
\* the attempt in flight of slot c ends: its fetch settles or its timer fires
AttemptEnds(c) ==
  \/ \E outcome \in Outcomes(WorkerResponses \cup StaticHostResponses) : NetSettles(c, outcome)
  \/ \E t \in timers : t.owner = c /\ TimerFires(t)

\* the fetch of slot c made without api_helpers.js settles
PlainEnds(c) ==
  \E outcome \in Outcomes(WorkerResponses \cup StaticHostResponses) : PlainSettles(c, outcome)

NetworkProgress ==
  \A c \in Slots :
    /\ WF_vars(AttemptEnds(c))
    /\ WF_vars(BackoffFires(c))
    /\ WF_vars(PlainEnds(c))

\* the user submits the form, with a valid identifier only while fewer than
\* MaxInFlightSerial lookups are in flight
SubmitSerial(idRaw, emailRaw) ==
  /\ Cardinality(InFlight(calls)) < MaxInFlightSerial
       \/ ValidationError(Trim(idRaw), EmailValue(emailRaw)) # NoFormError
  /\ HandleOrderSearch(idRaw, emailRaw)

NextLive ==
  \/ \E idRaw \in OrderIdInputs, emailRaw \in EmailInputs : SubmitSerial(idRaw, emailRaw)
  \/ \E c \in Slots : \E outcome \in Outcomes(WorkerResponses \cup StaticHostResponses) :
       NetSettles(c, outcome)
  \/ \E t \in timers : TimerFires(t)
  \/ \E c \in Slots : BackoffFires(c)
  \/ \E c \in Slots : \E outcome \in Outcomes(WorkerResponses \cup StaticHostResponses) :
       PlainSettles(c, outcome)
  \/ \E c \in Slots : JsonSettles(c)

SpecLive == Init /\ [][NextLive]_vars /\ NetworkProgress

(***************************************************************************)
(* C35  a validated submission leaves Loading                              *)
(***************************************************************************)
\* fetchWithRetry of slot c is within its budget: at most maxRetries attempts
\* started, and a wait only after an attempt that was not the last
WithinBudget(c) ==
  LET f == calls[c].f
  IN calls[c].pc = "retry" =>
       /\ f.maxRetries = DefaultMaxRetries
       /\ f.attempts \in 1..f.maxRetries
       /\ f.i = f.attempts - 1
       /\ f.pc = "wait" => f.attempts <= f.maxRetries - 1

\* the view is in Error
ShowsError(v) == ~v.statusHidden /\ v.message.kind = "error"

BodiesEnd == \A c \in Slots : WF_vars(JsonSettles(c))

MaxThemeTimers == 2

\* what localStorage holds for "theme" when the page loads
StoredThemes == {NoItem, Item(""), Item("light"), Item("dark"), Item("sepia")}

InitThemeSpec ==
  /\ page = ShippedPage
  /\ nav = setupRouting(<<>>, TRUE)
  /\ shop = NoShop
  /\ deb = NoDeb
  /\ calls = [c \in Slots |-> NoCall]
  /\ timers = {}
  /\ view = InitialView
  /\ formError = NoFormError
  /\ unhandled = {}
  /\ direct = NoDirect
  /\ probe = NoProbe
  /\ \E stored \in StoredThemes, systemDark \in BOOLEAN, attr \in {"", "light"} :
       theme = [NoTheme EXCEPT !.stored = stored, !.systemDark = systemDark, !.attr = attr]
  /\ sw = NoSw

\* init() reaches initTheme()
InitThemeRuns ==
  /\ theme.pc = "load"
  /\ theme' = initTheme(theme)
  /\ UNCHANGED <<page, sw, nav, shop, deb, calls, timers, view, formError, unhandled, direct, probe>>

\* a click on the toggle button (atPoint), or its activation by the keyboard
ToggleClicked(atPoint) ==
  /\ theme.pc = "ready"
  /\ theme.pendingTransition < MaxThemeTimers
  /\ theme' = toggleTheme(theme, atPoint)
  /\ UNCHANGED <<page, sw, nav, shop, deb, calls, timers, view, formError, unhandled, direct, probe>>

\* the system preference changes; once the listener is registered it runs
SystemPreferenceChanges ==
  /\ LET t == [theme EXCEPT !.systemDark = ~@]
     IN theme' = IF theme.pc = "ready" THEN systemThemeChanged(t, t.systemDark) ELSE t
  /\ UNCHANGED <<page, sw, nav, shop, deb, calls, timers, view, formError, unhandled, direct, probe>>

\* the oldest timer is the one that removes "pulsing"
PulseTimerFires ==
  /\ theme.pendingPulse > 0
  /\ theme.pendingPulse = theme.pendingTransition
  /\ theme' = [theme EXCEPT !.pulsing = FALSE, !.pendingPulse = @ - 1]
  /\ UNCHANGED <<page, sw, nav, shop, deb, calls, timers, view, formError, unhandled, direct, probe>>

\* the oldest timer is the one that removes "theme-transitioning"
TransitionTimerFires ==
  /\ theme.pendingTransition > theme.pendingPulse
  /\ theme' = [theme EXCEPT !.transitioning = FALSE, !.pendingTransition = @ - 1]
  /\ UNCHANGED <<page, sw, nav, shop, deb, calls, timers, view, formError, unhandled, direct, probe>>

\* the stored theme is removed from outside the page
StoredThemeRemoved ==
  /\ theme.pc = "ready"
  /\ theme.stored.present
  /\ theme' = [theme EXCEPT !.stored = NoItem, !.removed = TRUE]
  /\ UNCHANGED <<page, sw, nav, shop, deb, calls, timers, view, formError, unhandled, direct, probe>>

NextTheme ==
  \/ InitThemeRuns
  \/ \E atPoint \in BOOLEAN : ToggleClicked(atPoint)
  \/ SystemPreferenceChanges
  \/ PulseTimerFires
  \/ TransitionTimerFires
  \/ StoredThemeRemoved

SpecTheme == InitThemeSpec /\ [][NextTheme]_vars

(***************************************************************************)
(* C36  the theme is always persisted                                      *)
(***************************************************************************)
\* this step is initTheme()
ThemeInitialized == theme.pc = "load" /\ theme'.pc = "ready"

\* this step is a change of the system preference
SystemChanged == theme'.systemDark # theme.systemDark

\* C36: initTheme always stores a theme, also when it derived the theme from
\* the system preference; after initialization the stored theme and the
\* data-theme attribute are equal in every state in which the stored value
\* has not been removed from outside; and a change of the system preference
\* that finds the stored value in place changes neither the theme nor the
\* stored value.
C36_ThemePersisted ==
  /\ [][ThemeInitialized =>
          /\ theme'.stored = Item(getPreferredTheme(theme))
          /\ TruthyItem(theme'.stored)]_vars
  /\ []((theme.pc = "ready" /\ ~theme.removed) =>
          /\ theme.stored.present
          /\ theme.stored.value = theme.attr)
  /\ [][(SystemChanged /\ theme.pc = "ready" /\ ~theme.removed) =>
          /\ theme'.attr = theme.attr
          /\ theme'.stored = theme.stored]_vars

\* nothing was stored when the page loaded in a light system; initTheme
\* stored "light", and the system has turned dark since: the theme is light
C36_Witness ==
  /\ theme.pc = "ready"
  /\ theme.derived
  /\ theme.systemDark
  /\ theme.attr = "light"
  /\ theme.stored = Item("light")
  /\ ~theme.removed
  /\ ~theme.origin

(***************************************************************************)
(* The service worker: the install event, then fetch events handled        *)
(* concurrently, over a server whose resources change                      *)
(***************************************************************************)
InitSw ==
  /\ page = ShippedPage
  /\ nav = setupRouting(<<>>, TRUE)
  /\ shop = NoShop
  /\ deb = NoDeb
  /\ calls = [c \in Slots |-> NoCall]
  /\ timers = {}
  /\ view = InitialView
  /\ formError = NoFormError
  /\ unhandled = {}
  /\ direct = NoDirect
  /\ probe = NoProbe
  /\ theme = NoTheme
  /\ sw = NoSw

\* the install event; ok: cache.addAll fetched every URL
InstallEvent(ok) ==
  /\ sw.pc = "none"
  /\ sw' = onInstall(sw, ok)
  /\ UNCHANGED <<page, theme, nav, shop, deb, calls, timers, view, formError, unhandled, direct, probe>>

\* a page the worker controls requests url
FetchEvent(k, url, method, sameOrigin) ==
  /\ sw.pc = "active"
  /\ sw.run[k].pc \in {"idle", "done"}
  /\ sw' = onFetch(sw, k, url, method, sameOrigin)
  /\ UNCHANGED <<page, theme, nav, shop, deb, calls, timers, view, formError, unhandled, direct, probe>>

MatchResolves(k) ==
  /\ sw.run[k].pc = "match"
  /\ sw' = onMatch(sw, k)
  /\ UNCHANGED <<page, theme, nav, shop, deb, calls, timers, view, formError, unhandled, direct, probe>>

\* the server answers with the version it holds
NetworkResponds(k, status, type) ==
  /\ sw.run[k].pc = "fetch"
  /\ sw' = onNetworkResponse(sw, k, NetResponse(status, type, sw.server))
  /\ UNCHANGED <<page, theme, nav, shop, deb, calls, timers, view, formError, unhandled, direct, probe>>

NetworkFails(k) ==
  /\ sw.run[k].pc = "fetch"
  /\ sw' = onNetworkError(sw, k)
  /\ UNCHANGED <<page, theme, nav, shop, deb, calls, timers, view, formError, unhandled, direct, probe>>

FallbackResolves(k) ==
  /\ sw.run[k].pc = "fallback"
  /\ sw' = onFallback(sw, k)
  /\ UNCHANGED <<page, theme, nav, shop, deb, calls, timers, view, formError, unhandled, direct, probe>>

PutCompletes(k) ==
  /\ sw.run[k].pc = "put"
  /\ sw' = onPut(sw, k)
  /\ UNCHANGED <<page, theme, nav, shop, deb, calls, timers, view, formError, unhandled, direct, probe>>

\* the resources change on the server
ServerUpdates ==
  /\ sw.server < MaxVersions
  /\ sw' = [sw EXCEPT !.server = @ + 1]
  /\ UNCHANGED <<page, theme, nav, shop, deb, calls, timers, view, formError, unhandled, direct, probe>>

NextSw ==
  \/ \E ok \in BOOLEAN : InstallEvent(ok)
  \/ \E k \in SwSlots, url \in SwUrls, method \in {"GET", "POST"}, sameOrigin \in BOOLEAN :
       FetchEvent(k, url, method, sameOrigin)
  \/ \E k \in SwSlots : MatchResolves(k)
  \/ \E k \in SwSlots, status \in {200, 404}, type \in {"basic", "opaqueredirect"} :
       NetworkResponds(k, status, type)
  \/ \E k \in SwSlots : NetworkFails(k)
  \/ \E k \in SwSlots : FallbackResolves(k)
  \/ \E k \in SwSlots : PutCompletes(k)
  \/ ServerUpdates

SpecSw == InitSw /\ [][NextSw]_vars

(***************************************************************************)
(* C37  cache first                                                        *)
(***************************************************************************)
\* a request that had its entry in the cache when it came is answered from
\* the cache and the network is not contacted for it
LaterRequestsFromCache ==
  \A k \in SwSlots :
    sw.run[k].hadEntry =>
      /\ ~sw.run[k].network
      /\ sw.run[k].pc \in {"match", "done"}
      /\ sw.run[k].pc = "done" => sw.run[k].answer.from = "cache"

\* what the handler writes to the cache is a response with status 200 and
\* type basic
StoresOnlyBasic200 ==
  \A u \in SwUrls :
    (sw.pc = "active" /\ sw'.cache[u] # sw.cache[u])
    => sw'.cache[u].status = 200 /\ sw'.cache[u].type = "basic"

\* a request that is not a GET or goes to another origin is left to the
\* browser: no answer of the worker, no fetch of its own, nothing stored
NotIntercepted ==
  \A k \in SwSlots :
    (sw.run[k].pc # "idle" /\ (sw.run[k].method # "GET" \/ ~sw.run[k].sameOrigin))
    => /\ sw.run[k].pc = "done"
       /\ sw.run[k].answer.from = "browser"
       /\ ~sw.run[k].network

\* C37: the fetch handler is cache-first without refresh: once a same-origin
\* GET request has an entry in the cache, every later request for it is
\* answered from the cache without contacting the network, and the entry is
\* never updated or evicted by the handler; only network responses with
\* status 200 and type basic are ever stored; non-GET and cross-origin
\* requests are never intercepted.
C37_CacheFirstNoRefresh ==
  /\ []LaterRequestsFromCache
  /\ [][\A u \in SwUrls : sw.cache[u].present => sw'.cache[u] = sw.cache[u]]_vars
  /\ [][StoresOnlyBasic200]_vars
  /\ []NotIntercepted

\* this step changes the entry of u, and it is the cache.put of a run that
\* came when u had no entry
RewrittenByEarlierMiss(u) ==
  \E k \in SwSlots :
    /\ sw.run[k].pc = "put" /\ sw'.run[k].pc = "done"
    /\ sw.run[k].url = u
    /\ ~sw.run[k].hadEntry
    /\ sw'.cache[u] = Entry(sw.run[k].resp)

\* C37 as amended: once a same-origin GET request has an entry in the cache,
\* every request for it that comes later is answered from the cache without
\* contacting the network and writes nothing, and the entry is never evicted;
\* the entry is replaced only by requests for the same URL that came before
\* it was written and missed the cache: each of them stores the response of
\* its own fetch when it arrives, the last to arrive wins.  Only network
\* responses with status 200 and type basic are stored; non-GET and
\* cross-origin requests are never intercepted.
C37_CacheFirstLateMissesRewrite ==
  /\ []LaterRequestsFromCache
  /\ [][\A u \in SwUrls :
          sw.cache[u].present =>
            /\ sw'.cache[u].present
            /\ sw'.cache[u] # sw.cache[u] => RewrittenByEarlierMiss(u)]_vars
  /\ [][StoresOnlyBasic200]_vars
  /\ []NotIntercepted

\* two requests for the logo missed the cache; the first stored version 1,
\* the server changed, the second holds version 2 to store; a third request,
\* come since, was answered from the cache with version 1
C37_Witness ==
  /\ sw.cache["/images/logo.png"].version = 1
  /\ sw.run[2].pc = "put"
  /\ sw.run[2].url = "/images/logo.png"
  /\ sw.run[2].resp.version = 2
  /\ sw.run[1].hadEntry
  /\ sw.run[1].url = "/images/logo.png"
  /\ sw.run[1].answer.from = "cache"
  /\ sw.run[1].answer.entry.version = 1

====
